---------------------------- MODULE Spec2Model ----------------------------
(***************************************************************************)
(* Model of reflective_surfaces_mcp.py: the constant tables, the           *)
(* oscillation generator, the linear interpolation, the nearest-neighbour  *)
(* vocabulary mapper and the tool handlers built on them.                  *)
(*                                                                         *)
(* Python's float is IEEE-754 binary64.  The arithmetic of the source is   *)
(* modelled bit for bit: a float is a sign, a 53-bit significand and a     *)
(* binary exponent, and every operation rounds its exact result to the     *)
(* nearest representable value, ties to even.  Significands do not fit the *)
(* model checker's integers, so natural numbers are kept as sequences of   *)
(* 15-bit limbs, least significant first.                                  *)
(***************************************************************************)
EXTENDS Integers, Sequences, FiniteSets, TLC

\* Let([x \in {v} |-> e]) is e with x standing for the value v: v is
\* computed once, before e, as an assignment to a local variable of the
\* source is
Let(f) == f[CHOOSE x \in DOMAIN f : TRUE]

(***************************************************************************)
(* Natural numbers of arbitrary size.                                      *)
(***************************************************************************)
LimbBits == 15
Base == 32768

RECURSIVE Pow2(_)
Pow2(n) == IF n = 0 THEN 1 ELSE 2 * Pow2(n - 1)

RECURSIVE BNorm(_)
BNorm(a) ==
    IF a = <<>> THEN a
    ELSE IF a[Len(a)] = 0 THEN BNorm(SubSeq(a, 1, Len(a) - 1)) ELSE a

RECURSIVE BFromInt(_)
BFromInt(n) == IF n = 0 THEN <<>> ELSE <<n % Base>> \o BFromInt(n \div Base)

BHead(a) == IF a = <<>> THEN 0 ELSE Head(a)
BTail(a) == IF a = <<>> THEN <<>> ELSE Tail(a)

RECURSIVE BAddC(_, _, _)
BAddC(a, b, c) ==
    IF a = <<>> /\ b = <<>>
    THEN (IF c = 0 THEN <<>> ELSE <<c>>)
    ELSE LET s == BHead(a) + BHead(b) + c
         IN  <<s % Base>> \o BAddC(BTail(a), BTail(b), s \div Base)

BAdd(a, b) == BAddC(a, b, 0)

\* a - b for a >= b
RECURSIVE BSubC(_, _, _)
BSubC(a, b, c) ==
    IF a = <<>> THEN <<>>
    ELSE LET d == Head(a) - BHead(b) - c
         IN  IF d < 0
             THEN <<d + Base>> \o BSubC(Tail(a), BTail(b), 1)
             ELSE <<d>> \o BSubC(Tail(a), BTail(b), 0)

BSub(a, b) == BNorm(BSubC(a, b, 0))

\* -1, 0, 1 as a < b, a = b, a > b (both normalised)
RECURSIVE BCmpFrom(_, _, _)
BCmpFrom(a, b, i) ==
    IF i = 0 THEN 0
    ELSE IF a[i] < b[i] THEN -1
    ELSE IF a[i] > b[i] THEN 1
    ELSE BCmpFrom(a, b, i - 1)

BCmp(a, b) ==
    IF Len(a) < Len(b) THEN -1
    ELSE IF Len(a) > Len(b) THEN 1
    ELSE BCmpFrom(a, b, Len(a))

RECURSIVE BMulSmallC(_, _, _)
BMulSmallC(a, k, c) ==
    IF a = <<>>
    THEN (IF c = 0 THEN <<>> ELSE <<c>>)
    ELSE LET p == Head(a) * k + c
         IN  <<p % Base>> \o BMulSmallC(Tail(a), k, p \div Base)

BMulSmall(a, k) == BNorm(BMulSmallC(a, k, 0))

RECURSIVE BMul(_, _)
BMul(a, b) ==
    IF b = <<>> \/ a = <<>> THEN <<>>
    ELSE Let([rest \in {BMul(a, Tail(b))} |->
             BAdd(BMulSmall(a, Head(b)),
                  IF rest = <<>> THEN <<>> ELSE <<0>> \o rest)])

RECURSIVE Zeros(_)
Zeros(n) == IF n = 0 THEN <<>> ELSE <<0>> \o Zeros(n - 1)

\* a * 2^s
BShl(a, s) ==
    IF a = <<>> THEN <<>>
    ELSE Zeros(s \div LimbBits) \o BMulSmall(a, Pow2(s % LimbBits))

\* floor(a / k) for 0 < k <= Base, most significant limb first
RECURSIVE BDivSmallFrom(_, _, _, _)
BDivSmallFrom(a, k, i, r) ==
    IF i = 0 THEN <<>>
    ELSE LET cur == r * Base + a[i]
         IN  BDivSmallFrom(a, k, i - 1, cur % k) \o <<cur \div k>>

BDivSmall(a, k) == BNorm(BDivSmallFrom(a, k, Len(a), 0))

\* floor(a / 2^s)
BShr(a, s) ==
    LET drop == s \div LimbBits
    IN  IF drop >= Len(a) THEN <<>>
        ELSE BDivSmall(SubSeq(a, drop + 1, Len(a)), Pow2(s % LimbBits))

RECURSIVE SmallBits(_)
SmallBits(n) == IF n = 0 THEN 0 ELSE 1 + SmallBits(n \div 2)

\* number of binary digits of a
BitLen(a) ==
    IF a = <<>> THEN 0 ELSE (Len(a) - 1) * LimbBits + SmallBits(a[Len(a)])

BIsOdd(a) == a # <<>> /\ a[1] % 2 = 1

\* bit i (0 = least significant) of a
BBit(a, i) ==
    LET l == i \div LimbBits + 1
    IN  IF l > Len(a) THEN 0 ELSE (a[l] \div Pow2(i % LimbBits)) % 2

RECURSIVE BToInt(_)
BToInt(a) == IF a = <<>> THEN 0 ELSE Head(a) + Base * BToInt(Tail(a))

\* the largest d <= hi with d * b <= cur
RECURSIVE QDown(_, _, _)
QDown(cur, b, d) ==
    IF d = 0 \/ BCmp(BMulSmall(b, d), cur) <= 0 THEN d ELSE QDown(cur, b, d - 1)

\* floor(cur / b) for cur < b * Base: estimated from the leading 15 bits of
\* b (an overestimate by at most a few units), then corrected
QDigit(cur, b) ==
    Let([len \in {BitLen(b)} |->
    Let([sh \in {IF len > LimbBits THEN len - LimbBits ELSE 0} |->
    Let([est \in {BToInt(BShr(cur, sh)) \div BToInt(BShr(b, sh))} |->
        QDown(cur, b, IF est >= Base THEN Base - 1 ELSE est)])])])

\* <<floor(a / b), a mod b>> for b > 0, by long division, one limb at a time
RECURSIVE BDivModFrom(_, _, _, _)
BDivModFrom(a, b, i, r) ==
    IF i = 0 THEN <<<<>>, r>>
    ELSE Let([cur \in {BNorm(<<a[i]>> \o r)} |->
         Let([d \in {QDigit(cur, b)} |->
         Let([rest \in {BDivModFrom(a, b, i - 1, BSub(cur, BMulSmall(b, d)))} |->
             <<rest[1] \o <<d>>, rest[2]>>])])])

BDivMod(a, b) ==
    Let([dm \in {BDivModFrom(a, b, Len(a), <<>>)} |-> <<BNorm(dm[1]), dm[2]>>])

(***************************************************************************)
(* IEEE-754 binary64.  A float is [s, m, e] with value (-1)^s * m * 2^e,   *)
(* m a 53-bit natural; zero is m = <<>>, e = 0, s = 0.  The values of the  *)
(* program stay far from the overflow and subnormal ranges, which are not  *)
(* modelled, and the sign of a zero is not kept.                           *)
(***************************************************************************)
MantBits == 53

FZero == [s |-> 0, m |-> <<>>, e |-> 0]

FOne  == [s |-> 0, m |-> <<0, 0, 0, 128>>, e |-> -52]
FHalf == [s |-> 0, m |-> <<0, 0, 0, 128>>, e |-> -53]
FTwo  == [s |-> 0, m |-> <<0, 0, 0, 128>>, e |-> -51]

\* the float nearest to (-1)^s * n * 2^e, ties to even
FRound(s, n, e) ==
    IF n = <<>> THEN FZero
    ELSE Let([len \in {BitLen(n)} |->
         IF len <= MantBits
         THEN [s |-> s, m |-> BShl(n, MantBits - len), e |-> e - (MantBits - len)]
         ELSE Let([sh \in {len - MantBits} |->
              Let([q \in {BShr(n, sh)} |->
              Let([c \in {BCmp(BSub(n, BShl(q, sh)), BShl(<<1>>, sh - 1))} |->
              Let([q2 \in {IF c > 0 \/ (c = 0 /\ BIsOdd(q)) THEN BAdd(q, <<1>>) ELSE q} |->
                  IF BitLen(q2) > MantBits
                  THEN [s |-> s, m |-> BShr(q2, 1), e |-> e + sh + 1]
                  ELSE [s |-> s, m |-> q2, e |-> e + sh]])])])])])

\* float(n) for an int n
FInt(n) == FRound(IF n < 0 THEN 1 ELSE 0, BFromInt(IF n < 0 THEN -n ELSE n), 0)

FNeg(x) == IF x.m = <<>> THEN x ELSE [x EXCEPT !.s = 1 - x.s]

\* x + y
FAdd(x, y) ==
    IF x.m = <<>> THEN y
    ELSE IF y.m = <<>> THEN x
    ELSE Let([emin \in {IF x.e < y.e THEN x.e ELSE y.e} |->
         Let([xm \in {BShl(x.m, x.e - emin)} |->
         Let([ym \in {BShl(y.m, y.e - emin)} |->
         Let([c \in {BCmp(xm, ym)} |->
             IF x.s # y.s /\ c = 0 THEN FZero
             ELSE FRound(IF x.s = y.s \/ c > 0 THEN x.s ELSE y.s,
                         IF x.s = y.s THEN BAdd(xm, ym)
                         ELSE BSub(IF c > 0 THEN xm ELSE ym, IF c > 0 THEN ym ELSE xm),
                         emin)])])])])

\* x - y
FSub(x, y) == FAdd(x, FNeg(y))

\* x * y
FMul(x, y) ==
    IF x.m = <<>> \/ y.m = <<>> THEN FZero
    ELSE FRound((x.s + y.s) % 2, BMul(x.m, y.m), x.e + y.e)

\* the float nearest to (-1)^s * (a / b) * 2^e for naturals a and b > 0: a
\* quotient of at least 58 bits and a sticky bit, then rounded
FRatio(s, a, b, e) ==
    IF a = <<>> THEN FZero
    ELSE Let([sh \in {57 + BitLen(b)} |->
         Let([dm \in {BDivMod(BShl(a, sh), b)} |->
             FRound(s, BAdd(BAdd(dm[1], dm[1]), IF dm[2] = <<>> THEN <<>> ELSE <<1>>),
                    e - sh - 1)])])

\* x / y for y # 0
FDiv(x, y) == FRatio((x.s + y.s) % 2, x.m, y.m, x.e - y.e)

\* -1, 0, 1 as x < y, x = y, x > y
FCmpMag(x, y) ==
    IF x.m = <<>> THEN (IF y.m = <<>> THEN 0 ELSE -1)
    ELSE IF y.m = <<>> THEN 1
    ELSE IF x.e < y.e THEN -1
    ELSE IF x.e > y.e THEN 1
    ELSE BCmp(x.m, y.m)

FCmp(x, y) ==
    IF x.s = y.s
    THEN FCmpMag(IF x.s = 0 THEN x ELSE y, IF x.s = 0 THEN y ELSE x)
    ELSE IF x.s = 1 THEN -1 ELSE 1

FLt(x, y) == FCmp(x, y) < 0
FLe(x, y) == FCmp(x, y) <= 0

\* x % 1.0 (the result takes the sign of the divisor)
FMod1(x) ==
    IF x.m = <<>> \/ x.e >= 0 THEN FZero
    ELSE Let([r \in {FRound(x.s, BSub(x.m, BShl(BShr(x.m, -x.e), -x.e)), x.e)} |->
             IF r.m # <<>> /\ r.s = 1 THEN FAdd(r, FOne) ELSE r])

\* a decimal literal n / 10^k of the source text, n and 10^k ints: the
\* float nearest to the decimal
FDec(n, tenk) ==
    FRatio(IF n < 0 THEN 1 ELSE 0, BFromInt(IF n < 0 THEN -n ELSE n),
           BFromInt(tenk), 0)

\* int(x): x truncated toward zero, as an int
FTrunc(x) ==
    (IF x.s = 1 THEN -1 ELSE 1)
        * BToInt(IF x.e >= 0 THEN BShl(x.m, x.e) ELSE BShr(x.m, -x.e))

\* floor(sqrt(n)) of an int, by Newton's iteration from a start r >= sqrt(n)
RECURSIVE SmallSqrtFrom(_, _)
SmallSqrtFrom(n, r) ==
    LET r2 == (r + n \div r) \div 2
    IN  IF r2 >= r THEN r ELSE SmallSqrtFrom(n, r2)

\* floor(sqrt(n)) by Newton's iteration from a start r >= sqrt(n)
RECURSIVE ISqrtFrom(_, _)
ISqrtFrom(n, r) ==
    Let([r2 \in {BShr(BAdd(r, BDivMod(n, r)[1]), 1)} |->
        IF BCmp(r2, r) >= 0 THEN r ELSE ISqrtFrom(n, r2)])

\* floor(sqrt(n)) for n of more than 30 bits; the start comes from the
\* leading 29 or 30 bits of n
ISqrt(n) ==
    Let([len \in {BitLen(n)} |->
    Let([sh \in {IF (len - 30) % 2 = 0 THEN len - 30 ELSE len - 29} |->
        ISqrtFrom(n, BShl(BFromInt(SmallSqrtFrom(BToInt(BShr(n, sh)), Base) + 1),
                          sh \div 2))])])

\* math.sqrt(x) for x >= 0, correctly rounded
FSqrt(x) ==
    IF x.m = <<>> THEN FZero
    ELSE Let([k \in {IF (x.e - 58) % 2 = 0 THEN 58 ELSE 59} |->
         Let([n \in {BShl(x.m, k)} |->
         Let([r \in {ISqrt(n)} |->
             FRound(0,
                    BAdd(BAdd(r, r), IF BCmp(BMul(r, r), n) = 0 THEN <<>> ELSE <<1>>),
                    (x.e - k) \div 2 - 1)])])])

\* round(x, k) with tenk = 10^k: the decimal nearest to the exact value of x
\* (ties to even), read back as a float
FRoundDec(x, tenk) ==
    IF x.m = <<>> \/ x.e >= 0 THEN x
    ELSE Let([num \in {BMul(x.m, BFromInt(tenk))} |->
         Let([q \in {BShr(num, -x.e)} |->
         Let([c \in {BCmp(BSub(num, BShl(q, -x.e)), BShl(<<1>>, -x.e - 1))} |->
             FRatio(x.s,
                    IF c > 0 \/ (c = 0 /\ BIsOdd(q)) THEN BAdd(q, <<1>>) ELSE q,
                    BFromInt(tenk), 0)])])])

(***************************************************************************)
(* math.pi and math.sin.  The sine is computed in fixed point with 120     *)
(* fractional bits (argument reduced modulo 2 pi, then by symmetry to the  *)
(* first quadrant, then the Taylor series) and rounded to the nearest      *)
(* float, which is the result of a correctly rounding library.             *)
(***************************************************************************)
FixBits == 120
TaylorTerms == 17

\* math.pi = 884279719003555 / 2^48
FPi   == [s |-> 0, m |-> <<11544, 10376, 2029, 201>>, e |-> -51]

\* floor(2 pi * 2^120), floor(pi * 2^120), floor(pi/2 * 2^120)
TwoPiFix  == <<24806, 14349, 19537, 12593, 24858, 8552, 13636, 9279, 6>>
PiFix     == BShr(TwoPiFix, 1)
HalfPiFix == BShr(TwoPiFix, 2)

FixMul(a, b) == BShr(BMul(a, b), FixBits)

\* <<sum of the terms added, sum of the terms subtracted>> of
\* y - y^3/3! + y^5/5! - ..., term number k being `term`
RECURSIVE TaylorFrom(_, _, _, _, _)
TaylorFrom(term, y2, k, pos, neg) ==
    IF k > TaylorTerms \/ term = <<>> THEN <<pos, neg>>
    ELSE Let([pos2 \in {IF k % 2 = 1 THEN BAdd(pos, term) ELSE pos} |->
         Let([neg2 \in {IF k % 2 = 1 THEN neg ELSE BAdd(neg, term)} |->
             IF Len(pos2) >= Len(neg2)
             THEN TaylorFrom(BDivSmall(FixMul(term, y2), (2 * k) * (2 * k + 1)),
                             y2, k + 1, pos2, neg2)
             ELSE <<pos2, neg2>>])])

\* the angle y of [0, 2 pi) reflected into the first quadrant
Quadrant(y) ==
    Let([z \in {IF BCmp(y, PiFix) <= 0 THEN y ELSE BSub(y, PiFix)} |->
        IF BCmp(z, HalfPiFix) <= 0 THEN z ELSE BSub(PiFix, z)])

\* sin of the fixed-point angle fx >= 0, as <<negative, magnitude>>
SinFix(fx) ==
    Let([y \in {BDivMod(fx, TwoPiFix)[2]} |->
    Let([q \in {Quadrant(y)} |->
    Let([t \in {TaylorFrom(q, FixMul(q, q), 1, <<>>, <<>>)} |->
        <<BCmp(y, PiFix) > 0, BSub(t[1], t[2])>>])])])

\* |x| in fixed point
ToFix(x) ==
    IF x.e + FixBits >= 0
    THEN BShl(x.m, x.e + FixBits)
    ELSE BShr(x.m, -(x.e + FixBits))

\* math.sin(x)
FSin(x) ==
    IF x.m = <<>> THEN FZero
    ELSE Let([r \in {SinFix(ToFix(x))} |->
             FRound(IF r[1] THEN 1 - x.s ELSE x.s, r[2], -FixBits)])

\* math.cos(x) = sin(|x| + pi/2)
FCos(x) ==
    Let([r \in {SinFix(BAdd(ToFix(x), HalfPiFix))} |->
        FRound(IF r[1] THEN 1 ELSE 0, r[2], -FixBits)])

\* m^n for a natural m
RECURSIVE BPow(_, _)
BPow(m, n) == IF n = 0 THEN <<1>> ELSE BMul(m, BPow(m, n - 1))

\* x ** n for an int n >= 1: the float nearest to the exact power
FPow(x, n) ==
    IF x.m = <<>> THEN FZero
    ELSE FRound(IF n % 2 = 0 THEN 0 ELSE x.s, BPow(x.m, n), x.e * n)

\* math.radians(x): x times the float pi / 180
FRadians(x) == FMul(x, FDiv(FPi, FInt(180)))

\* float("inf"), kept as 2^1024, the least power of two above every float
FInf == [s |-> 0, m |-> <<0, 0, 0, 128>>, e |-> 972]

(***************************************************************************)
(* Python values.  None; a number is an int or a float (PyInt, PyFloat);   *)
(* a decoded JSON document is null, a number, a string, an array or an     *)
(* object (a function from its keys to JSON values).                       *)
(***************************************************************************)
PyNone == [py |-> "None"]

PyStr(x)   == [py |-> "str", v |-> x]
PyInt(n)   == [py |-> "int", v |-> n]
PyFloat(x) == [py |-> "float", v |-> x]

\* float(n) for a Python number n
ToFloat(n) == IF n.py = "int" THEN FInt(n.v) ELSE n.v

JNull    == [j |-> "null"]
JNum(x)  == [j |-> "number", num |-> x]
JStr(x)  == [j |-> "string", str |-> x]
JArr(x)  == [j |-> "array", items |-> x]
JObj(x)  == [j |-> "object", fields |-> x]

\* a text argument is modelled by what it decodes to
JsonText(value) == [wf |-> TRUE, value |-> value]
NotJson         == [wf |-> FALSE]

\* a handler returns a payload or raises an exception to its caller
Return(payload) == [kind |-> "return", payload |-> payload]
Raise(exc)      == [kind |-> "raise", exc |-> exc]

(***************************************************************************)
(* The constant tables.  A float literal d/10^k of the source is the float *)
(* nearest to that decimal, FDec(d, 10^k).                                 *)
(***************************************************************************)
\* the reflection-type table
REFLECTION_TYPES ==
       "specular" :>
        ("name" :> "Specular Reflection"
           @@ "description" :> "Mirror-like perfect reflections"
           @@ "reflection_coefficient" :> FDec(9, 10)
           @@ "clarity" :> FDec(1, 1)
           @@ "distortion" :> FDec(0, 1)
           @@ "keywords" :> <<"mirror-like",
                 "sharp reflections",
                 "perfect clarity",
                 "distinct mirror image">>
           @@ "materials" :> <<"polished chrome",
                 "mirror glass",
                 "still water",
                 "polished marble">>
           @@ "optical_properties" :> ("preserves_angles" :> TRUE
               @@ "color_fidelity" :> "high"
               @@ "depth_perception" :> "accurate"))
    @@ "glossy" :>
        ("name" :> "Glossy Reflection"
           @@ "description" :> "Clear but softer reflections with slight diffusion"
           @@ "reflection_coefficient" :> FDec(6, 10)
           @@ "clarity" :> FDec(7, 10)
           @@ "distortion" :> FDec(2, 10)
           @@ "keywords" :> <<"polished surface",
                 "soft reflections",
                 "gentle sheen",
                 "semi-reflective">>
           @@ "materials" :> <<"polished wood",
                 "glazed ceramic",
                 "car paint",
                 "wet pavement">>
           @@ "optical_properties" :> ("preserves_angles" :> TRUE
               @@ "color_fidelity" :> "medium-high"
               @@ "depth_perception" :> "slightly softened"))
    @@ "diffuse" :>
        ("name" :> "Diffuse Reflection"
           @@ "description" :> "Scattered light, no clear image reflection"
           @@ "reflection_coefficient" :> FDec(3, 10)
           @@ "clarity" :> FDec(2, 10)
           @@ "distortion" :> FDec(8, 10)
           @@ "keywords" :> <<"matte surface",
                 "scattered light",
                 "soft glow",
                 "no distinct reflection">>
           @@ "materials" :> <<"unpolished metal",
                 "frosted glass",
                 "matte paint",
                 "rough stone">>
           @@ "optical_properties" :> ("preserves_angles" :> FALSE
               @@ "color_fidelity" :> "low"
               @@ "depth_perception" :> "minimal"))
    @@ "caustic" :>
        ("name" :> "Caustic Patterns"
           @@ "description" :> "Focused light patterns from curved/refractive surfaces"
           @@ "reflection_coefficient" :> FDec(4, 10)
           @@ "clarity" :> FDec(3, 10)
           @@ "distortion" :> FDec(6, 10)
           @@ "keywords" :> <<"light patterns",
                 "dancing reflections",
                 "rippled caustics",
                 "focused beams">>
           @@ "materials" :> <<"rippled water",
                 "textured glass",
                 "crystal facets",
                 "ice surfaces">>
           @@ "optical_properties" :> ("preserves_angles" :> FALSE
               @@ "color_fidelity" :> "varies"
               @@ "depth_perception" :> "complex"))
    @@ "metallic" :>
        ("name" :> "Metallic Reflection"
           @@ "description" :> "Color-tinted reflections from metal surfaces"
           @@ "reflection_coefficient" :> FDec(8, 10)
           @@ "clarity" :> FDec(85, 100)
           @@ "distortion" :> FDec(1, 10)
           @@ "keywords" :> <<"metal sheen",
                 "tinted reflections",
                 "lustrous surface",
                 "metallic gleam">>
           @@ "materials" :> <<"brushed aluminum",
                 "copper",
                 "brass",
                 "gold",
                 "silver">>
           @@ "optical_properties" :> ("preserves_angles" :> TRUE
               @@ "color_fidelity" :> "tinted"
               @@ "depth_perception" :> "accurate with color cast"))
    @@ "refractive" :>
        ("name" :> "Refractive Distortion"
           @@ "description" :> "Bent light paths through transparent media"
           @@ "reflection_coefficient" :> FDec(5, 10)
           @@ "clarity" :> FDec(6, 10)
           @@ "distortion" :> FDec(5, 10)
           @@ "keywords" :> <<"bent light",
                 "distorted view",
                 "magnification",
                 "prismatic effects">>
           @@ "materials" :> <<"glass",
                 "water",
                 "crystal",
                 "ice",
                 "transparent plastic">>
           @@ "optical_properties" :> ("preserves_angles" :> FALSE
               @@ "color_fidelity" :> "chromatic aberration possible"
               @@ "depth_perception" :> "warped"))


\* list(REFLECTION_TYPES.keys()): the keys in declaration order
REFLECTION_TYPES_KEYS ==
    <<"specular",
      "glossy",
      "diffuse",
      "caustic",
      "metallic",
      "refractive">>

\* the material table
SURFACE_MATERIALS ==
       "mirror_glass" :>
        ("name" :> "Mirror Glass"
           @@ "reflection_type" :> "specular"
           @@ "reflection_coefficient" :> FDec(95, 100)
           @@ "roughness" :> FDec(0, 1)
           @@ "ior" :> FDec(152, 100)
           @@ "metallic" :> FDec(0, 1)
           @@ "color_tint" :> PyNone
           @@ "keywords" :> <<"perfect mirror",
                 "silvered glass",
                 "clear reflection",
                 "flawless surface">>)
    @@ "polished_chrome" :>
        ("name" :> "Polished Chrome"
           @@ "reflection_type" :> "metallic"
           @@ "reflection_coefficient" :> FDec(88, 100)
           @@ "roughness" :> FDec(5, 100)
           @@ "ior" :> FDec(27, 10)
           @@ "metallic" :> FDec(1, 1)
           @@ "color_tint" :> "cool_neutral"
           @@ "keywords" :> <<"chrome finish",
                 "metallic sheen",
                 "industrial gleam",
                 "steel-like">>)
    @@ "brushed_metal" :>
        ("name" :> "Brushed Metal"
           @@ "reflection_type" :> "glossy"
           @@ "reflection_coefficient" :> FDec(6, 10)
           @@ "roughness" :> FDec(25, 100)
           @@ "ior" :> FDec(25, 10)
           @@ "metallic" :> FDec(9, 10)
           @@ "color_tint" :> "varies"
           @@ "keywords" :> <<"directional grain",
                 "soft metal sheen",
                 "textured surface",
                 "industrial finish">>)
    @@ "still_water" :>
        ("name" :> "Still Water"
           @@ "reflection_type" :> "specular"
           @@ "reflection_coefficient" :> FDec(85, 100)
           @@ "roughness" :> FDec(2, 100)
           @@ "ior" :> FDec(133, 100)
           @@ "metallic" :> FDec(0, 1)
           @@ "color_tint" :> "slight_blue"
           @@ "keywords" :> <<"glassy surface",
                 "lake reflection",
                 "mirror-like water",
                 "perfect stillness">>)
    @@ "rippled_water" :>
        ("name" :> "Rippled Water"
           @@ "reflection_type" :> "caustic"
           @@ "reflection_coefficient" :> FDec(6, 10)
           @@ "roughness" :> FDec(4, 10)
           @@ "ior" :> FDec(133, 100)
           @@ "metallic" :> FDec(0, 1)
           @@ "color_tint" :> "slight_blue"
           @@ "keywords" :> <<"dancing reflections",
                 "wave patterns",
                 "distorted mirror",
                 "moving surface">>)
    @@ "frosted_glass" :>
        ("name" :> "Frosted Glass"
           @@ "reflection_type" :> "diffuse"
           @@ "reflection_coefficient" :> FDec(2, 10)
           @@ "roughness" :> FDec(8, 10)
           @@ "ior" :> FDec(152, 100)
           @@ "metallic" :> FDec(0, 1)
           @@ "color_tint" :> PyNone
           @@ "keywords" :> <<"translucent",
                 "soft glow",
                 "privacy glass",
                 "diffused light">>)
    @@ "wet_pavement" :>
        ("name" :> "Wet Pavement"
           @@ "reflection_type" :> "glossy"
           @@ "reflection_coefficient" :> FDec(5, 10)
           @@ "roughness" :> FDec(3, 10)
           @@ "ior" :> FDec(133, 100)
           @@ "metallic" :> FDec(0, 1)
           @@ "color_tint" :> "neutral_dark"
           @@ "keywords" :> <<"rain-slicked",
                 "street reflections",
                 "urban sheen",
                 "puddle mirrors">>)
    @@ "polished_marble" :>
        ("name" :> "Polished Marble"
           @@ "reflection_type" :> "glossy"
           @@ "reflection_coefficient" :> FDec(7, 10)
           @@ "roughness" :> FDec(15, 100)
           @@ "ior" :> FDec(155, 100)
           @@ "metallic" :> FDec(0, 1)
           @@ "color_tint" :> "varies"
           @@ "keywords" :> <<"stone gleam",
                 "luxury surface",
                 "veined reflection",
                 "architectural polish">>)
    @@ "copper" :>
        ("name" :> "Copper"
           @@ "reflection_type" :> "metallic"
           @@ "reflection_coefficient" :> FDec(75, 100)
           @@ "roughness" :> FDec(1, 10)
           @@ "ior" :> FDec(28, 10)
           @@ "metallic" :> FDec(1, 1)
           @@ "color_tint" :> "warm_orange"
           @@ "keywords" :> <<"copper gleam",
                 "warm metallic",
                 "reddish tint",
                 "oxidized patina potential">>)
    @@ "gold" :>
        ("name" :> "Gold"
           @@ "reflection_type" :> "metallic"
           @@ "reflection_coefficient" :> FDec(8, 10)
           @@ "roughness" :> FDec(8, 100)
           @@ "ior" :> FDec(47, 100)
           @@ "metallic" :> FDec(1, 1)
           @@ "color_tint" :> "warm_yellow"
           @@ "keywords" :> <<"golden luster",
                 "warm reflections",
                 "precious metal",
                 "rich gleam">>)


\* list(SURFACE_MATERIALS.keys()): the keys in declaration order
SURFACE_MATERIALS_KEYS ==
    <<"mirror_glass",
      "polished_chrome",
      "brushed_metal",
      "still_water",
      "rippled_water",
      "frosted_glass",
      "wet_pavement",
      "polished_marble",
      "copper",
      "gold">>

\* the optical-phenomena table
OPTICAL_PHENOMENA ==
       "fresnel_effect" :>
        ("name" :> "Fresnel Effect"
           @@ "description" :> "Reflection intensity varies with viewing angle"
           @@ "angle_dependency" :> "strong"
           @@ "intensity_at_grazing" :> FDec(1, 1)
           @@ "intensity_at_normal" :> FDec(4, 100)
           @@ "keywords" :> <<"angle-dependent reflection",
                 "edge brightness",
                 "viewing angle changes">>
           @@ "applicable_materials" :> <<"glass", "water", "plastics", "dielectrics">>)
    @@ "chromatic_aberration" :>
        ("name" :> "Chromatic Aberration"
           @@ "description" :> "Color fringing in refractive materials"
           @@ "effect_strength" :> "medium"
           @@ "color_separation" :> <<"red_shift_edges", "blue_shift_center">>
           @@ "keywords" :> <<"color fringing",
                 "rainbow edges",
                 "prismatic effect",
                 "wavelength separation">>
           @@ "applicable_materials" :> <<"glass", "crystal", "water", "transparent_media">>)
    @@ "total_internal_reflection" :>
        ("name" :> "Total Internal Reflection"
           @@ "description" :> "Complete reflection at critical angle in denser media"
           @@ "critical_angle_glass" :> FDec(418, 10)
           @@ "critical_angle_water" :> FDec(486, 10)
           @@ "keywords" :> <<"fiber optic effect",
                 "trapped light",
                 "critical angle",
                 "complete reflection">>
           @@ "applicable_materials" :> <<"glass", "water", "diamond", "transparent_solids">>)
    @@ "subsurface_scattering" :>
        ("name" :> "Subsurface Scattering"
           @@ "description" :> "Light penetrates surface, scatters internally"
           @@ "depth_penetration" :> "shallow"
           @@ "color_shift" :> "subtle"
           @@ "keywords" :> <<"internal glow",
                 "translucent effect",
                 "soft diffusion",
                 "depth glow">>
           @@ "applicable_materials" :> <<"marble", "wax", "skin", "jade", "alabaster">>)
    @@ "anisotropic_reflection" :>
        ("name" :> "Anisotropic Reflection"
           @@ "description" :> "Directional surface structure creates elongated highlights"
           @@ "directionality" :> "strong"
           @@ "highlight_shape" :> "elongated"
           @@ "keywords" :> <<"brushed metal look",
                 "directional grain",
                 "linear highlights",
                 "CD-like iridescence">>
           @@ "applicable_materials" :> <<"brushed_metal", "hair", "fabric", "wood_grain">>)


\* list(OPTICAL_PHENOMENA.keys()): the keys in declaration order
OPTICAL_PHENOMENA_KEYS ==
    <<"fresnel_effect",
      "chromatic_aberration",
      "total_internal_reflection",
      "subsurface_scattering",
      "anisotropic_reflection">>

\* the geometry table
GEOMETRY_FACTORS ==
       "flat" :>
        ("name" :> "Flat Surface"
           @@ "curvature" :> FDec(0, 1)
           @@ "reflection_distortion" :> FDec(0, 1)
           @@ "coverage_uniformity" :> FDec(1, 1)
           @@ "keywords" :> <<"planar reflection",
                 "undistorted mirror",
                 "parallel surfaces",
                 "true image">>
           @@ "example_contexts" :> <<"wall mirrors",
                 "still water",
                 "glass windows",
                 "polished floors">>)
    @@ "convex" :>
        ("name" :> "Convex Surface"
           @@ "curvature" :> "positive"
           @@ "reflection_distortion" :> FDec(6, 10)
           @@ "coverage_uniformity" :> FDec(4, 10)
           @@ "keywords" :> <<"wide-angle view",
                 "compressed reflection",
                 "fisheye effect",
                 "panoramic distortion">>
           @@ "example_contexts" :> <<"spheres",
                 "domes",
                 "security mirrors",
                 "watch crystals",
                 "bubbles">>)
    @@ "concave" :>
        ("name" :> "Concave Surface"
           @@ "curvature" :> "negative"
           @@ "reflection_distortion" :> FDec(7, 10)
           @@ "coverage_uniformity" :> FDec(3, 10)
           @@ "keywords" :> <<"magnified reflection",
                 "focused convergence",
                 "inverted beyond focal point",
                 "concentrated view">>
           @@ "example_contexts" :> <<"spoons",
                 "satellite dishes",
                 "makeup mirrors",
                 "parabolic reflectors">>)
    @@ "compound" :>
        ("name" :> "Compound Curvature"
           @@ "curvature" :> "complex"
           @@ "reflection_distortion" :> FDec(8, 10)
           @@ "coverage_uniformity" :> FDec(2, 10)
           @@ "keywords" :> <<"complex distortion",
                 "variable magnification",
                 "artistic warping",
                 "multi-directional curves">>
           @@ "example_contexts" :> <<"car bodies",
                 "sculptures",
                 "architectural features",
                 "organic forms">>)
    @@ "faceted" :>
        ("name" :> "Faceted Surface"
           @@ "curvature" :> "discrete"
           @@ "reflection_distortion" :> FDec(5, 10)
           @@ "coverage_uniformity" :> FDec(5, 10)
           @@ "keywords" :> <<"fragmented reflections",
                 "geometric patterns",
                 "prismatic separation",
                 "crystalline structure">>
           @@ "example_contexts" :> <<"cut glass",
                 "gemstones",
                 "disco balls",
                 "architectural glass",
                 "crystal">>)


\* list(GEOMETRY_FACTORS.keys()): the keys in declaration order
GEOMETRY_FACTORS_KEYS ==
    <<"flat",
      "convex",
      "concave",
      "compound",
      "faceted">>

\* the environment table
ENVIRONMENTAL_CONTEXTS ==
       "bright_daylight" :>
        ("name" :> "Bright Daylight"
           @@ "light_intensity" :> FDec(1, 1)
           @@ "contrast_ratio" :> FDec(8, 10)
           @@ "color_temperature" :> 5500
           @@ "reflection_visibility" :> FDec(9, 10)
           @@ "keywords" :> <<"harsh reflections",
                 "high contrast",
                 "glare potential",
                 "sharp definition">>)
    @@ "overcast" :>
        ("name" :> "Overcast Sky"
           @@ "light_intensity" :> FDec(4, 10)
           @@ "contrast_ratio" :> FDec(3, 10)
           @@ "color_temperature" :> 6500
           @@ "reflection_visibility" :> FDec(5, 10)
           @@ "keywords" :> <<"soft reflections",
                 "low contrast",
                 "diffused lighting",
                 "gentle tones">>)
    @@ "golden_hour" :>
        ("name" :> "Golden Hour"
           @@ "light_intensity" :> FDec(6, 10)
           @@ "contrast_ratio" :> FDec(7, 10)
           @@ "color_temperature" :> 3500
           @@ "reflection_visibility" :> FDec(85, 100)
           @@ "keywords" :> <<"warm reflections",
                 "amber tones",
                 "long shadows",
                 "dramatic lighting">>)
    @@ "artificial_indoor" :>
        ("name" :> "Artificial Indoor"
           @@ "light_intensity" :> FDec(5, 10)
           @@ "contrast_ratio" :> FDec(6, 10)
           @@ "color_temperature" :> 4000
           @@ "reflection_visibility" :> FDec(7, 10)
           @@ "keywords" :> <<"controlled lighting",
                 "mixed sources",
                 "ambient fill",
                 "practical lights">>)
    @@ "night_urban" :>
        ("name" :> "Night Urban"
           @@ "light_intensity" :> FDec(2, 10)
           @@ "contrast_ratio" :> FDec(9, 10)
           @@ "color_temperature" :> 3000
           @@ "reflection_visibility" :> FDec(8, 10)
           @@ "keywords" :> <<"neon reflections",
                 "colored lights",
                 "deep shadows",
                 "artificial glow">>)


\* list(ENVIRONMENTAL_CONTEXTS.keys()): the keys in declaration order
ENVIRONMENTAL_CONTEXTS_KEYS ==
    <<"bright_daylight",
      "overcast",
      "golden_hour",
      "artificial_indoor",
      "night_urban">>

\* the five dimensions of the parameter space, in order
REFLECTION_PARAMETER_NAMES ==
    <<"reflection_clarity",
      "surface_roughness",
      "metallic_character",
      "geometric_distortion",
      "environmental_drama">>

\* the canonical states
REFLECTION_CANONICAL_STATES ==
       "mirror_still" :>
        ("reflection_clarity" :> FDec(95, 100)
           @@ "surface_roughness" :> FDec(2, 100)
           @@ "metallic_character" :> FDec(5, 100)
           @@ "geometric_distortion" :> FDec(0, 1)
           @@ "environmental_drama" :> FDec(5, 10)
           @@ "_material_ref" :> "mirror_glass"
           @@ "_geometry_ref" :> "flat"
           @@ "_description" :> "Perfect planar mirror, undistorted specular reflection, full clarity")
    @@ "chrome_curve" :>
        ("reflection_clarity" :> FDec(85, 100)
           @@ "surface_roughness" :> FDec(5, 100)
           @@ "metallic_character" :> FDec(95, 100)
           @@ "geometric_distortion" :> FDec(55, 100)
           @@ "environmental_drama" :> FDec(45, 100)
           @@ "_material_ref" :> "polished_chrome"
           @@ "_geometry_ref" :> "convex"
           @@ "_description" :> "Polished chrome convex surface, metallic sheen with fisheye compression")
    @@ "wet_street" :>
        ("reflection_clarity" :> FDec(5, 10)
           @@ "surface_roughness" :> FDec(3, 10)
           @@ "metallic_character" :> FDec(0, 1)
           @@ "geometric_distortion" :> FDec(5, 100)
           @@ "environmental_drama" :> FDec(95, 100)
           @@ "_material_ref" :> "wet_pavement"
           @@ "_geometry_ref" :> "flat"
           @@ "_description" :> "Rain-slicked urban pavement, neon reflections in dark puddles, high drama")
    @@ "rippled_pool" :>
        ("reflection_clarity" :> FDec(35, 100)
           @@ "surface_roughness" :> FDec(4, 10)
           @@ "metallic_character" :> FDec(0, 1)
           @@ "geometric_distortion" :> FDec(45, 100)
           @@ "environmental_drama" :> FDec(55, 100)
           @@ "_material_ref" :> "rippled_water"
           @@ "_geometry_ref" :> "compound"
           @@ "_description" :> "Moving water surface, dancing caustic patterns, warm ambient refraction")
    @@ "frosted_pane" :>
        ("reflection_clarity" :> FDec(1, 10)
           @@ "surface_roughness" :> FDec(85, 100)
           @@ "metallic_character" :> FDec(0, 1)
           @@ "geometric_distortion" :> FDec(5, 100)
           @@ "environmental_drama" :> FDec(15, 100)
           @@ "_material_ref" :> "frosted_glass"
           @@ "_geometry_ref" :> "flat"
           @@ "_description" :> "Heavy frosted glass, diffuse scattered glow, soft overcast light")
    @@ "copper_facet" :>
        ("reflection_clarity" :> FDec(7, 10)
           @@ "surface_roughness" :> FDec(12, 100)
           @@ "metallic_character" :> FDec(9, 10)
           @@ "geometric_distortion" :> FDec(65, 100)
           @@ "environmental_drama" :> FDec(55, 100)
           @@ "_material_ref" :> "copper"
           @@ "_geometry_ref" :> "faceted"
           @@ "_description" :> "Faceted copper surface, warm orange-tinted fragmented reflections")
    @@ "marble_hall" :>
        ("reflection_clarity" :> FDec(65, 100)
           @@ "surface_roughness" :> FDec(18, 100)
           @@ "metallic_character" :> FDec(5, 100)
           @@ "geometric_distortion" :> FDec(0, 1)
           @@ "environmental_drama" :> FDec(4, 10)
           @@ "_material_ref" :> "polished_marble"
           @@ "_geometry_ref" :> "flat"
           @@ "_description" :> "Polished marble floor, luxury architectural reflection with veined pattern")
    @@ "gold_dome" :>
        ("reflection_clarity" :> FDec(8, 10)
           @@ "surface_roughness" :> FDec(8, 100)
           @@ "metallic_character" :> FDec(1, 1)
           @@ "geometric_distortion" :> FDec(5, 10)
           @@ "environmental_drama" :> FDec(65, 100)
           @@ "_material_ref" :> "gold"
           @@ "_geometry_ref" :> "convex"
           @@ "_description" :> "Gold convex dome, warm yellow-tinted compressed panoramic reflection")


\* list(REFLECTION_CANONICAL_STATES.keys()): the keys in declaration order
\* the keys of the canonical states without the last one
CANONICAL_STATES_KEYS_BUT_LAST ==
    <<"mirror_still",
      "chrome_curve",
      "wet_street",
      "rippled_pool",
      "frosted_pane",
      "copper_facet",
      "marble_hall">>

REFLECTION_CANONICAL_STATES_KEYS ==
    <<"mirror_still",
      "chrome_curve",
      "wet_street",
      "rippled_pool",
      "frosted_pane",
      "copper_facet",
      "marble_hall",
      "gold_dome">>

\* the rhythmic presets
REFLECTION_RHYTHMIC_PRESETS ==
       "clarity_sweep" :>
        ("state_a" :> "mirror_still"
           @@ "state_b" :> "frosted_pane"
           @@ "pattern" :> "sinusoidal"
           @@ "num_cycles" :> 3
           @@ "steps_per_cycle" :> 16
           @@ "description" :> "Reflection clarity cycling from perfect specular mirror to heavy diffuse frost")
    @@ "urban_drama" :>
        ("state_a" :> "wet_street"
           @@ "state_b" :> "chrome_curve"
           @@ "pattern" :> "sinusoidal"
           @@ "num_cycles" :> 3
           @@ "steps_per_cycle" :> 24
           @@ "description" :> "Alternating between rain-slicked urban puddles and industrial chrome curves")
    @@ "material_shift" :>
        ("state_a" :> "copper_facet"
           @@ "state_b" :> "mirror_still"
           @@ "pattern" :> "sinusoidal"
           @@ "num_cycles" :> 3
           @@ "steps_per_cycle" :> 20
           @@ "description" :> "Metallic character transition from warm faceted copper to pure dielectric mirror")
    @@ "distortion_wave" :>
        ("state_a" :> "rippled_pool"
           @@ "state_b" :> "marble_hall"
           @@ "pattern" :> "triangular"
           @@ "num_cycles" :> 4
           @@ "steps_per_cycle" :> 15
           @@ "description" :> "Geometric distortion oscillating between moving water caustics and flat stone")
    @@ "warmth_cycle" :>
        ("state_a" :> "gold_dome"
           @@ "state_b" :> "frosted_pane"
           @@ "pattern" :> "sinusoidal"
           @@ "num_cycles" :> 2
           @@ "steps_per_cycle" :> 26
           @@ "description" :> "Temperature cycling from warm golden metallic dome to cool diffuse frost")

\* list(REFLECTION_RHYTHMIC_PRESETS.keys()): the keys in declaration order
REFLECTION_RHYTHMIC_PRESETS_KEYS ==
    <<"clarity_sweep",
      "urban_drama",
      "material_shift",
      "distortion_wave",
      "warmth_cycle">>

\* the six visual archetypes
REFLECTION_VISUAL_TYPES ==
       "perfect_mirror" :>
        ("coords" :> ("reflection_clarity" :> FDec(95, 100)
               @@ "surface_roughness" :> FDec(2, 100)
               @@ "metallic_character" :> FDec(5, 100)
               @@ "geometric_distortion" :> FDec(0, 1)
               @@ "environmental_drama" :> FDec(5, 10))
           @@ "keywords" :> <<"flawless mirror reflection with perfect clarity",
                 "undistorted specular surface doubling the scene",
                 "silvered glass with razor-sharp reflected image",
                 "planar mirror preserving all angles and proportions",
                 "infinite depth illusion in mirror plane",
                 "crystalline reflection fidelity">>
           @@ "optical_properties" :> ("finish" :> "perfect_specular"
               @@ "dominant_wavelength" :> "scene_faithful"
               @@ "edge_quality" :> "razor_sharp"
               @@ "luminosity" :> "high_reflected")
           @@ "color_associations" :> <<"true-color reflected scene",
                 "silver-neutral surface tone",
                 "deep virtual space behind glass",
                 "clean highlight edges">>)
    @@ "metallic_gleam" :>
        ("coords" :> ("reflection_clarity" :> FDec(82, 100)
               @@ "surface_roughness" :> FDec(7, 100)
               @@ "metallic_character" :> FDec(95, 100)
               @@ "geometric_distortion" :> FDec(5, 10)
               @@ "environmental_drama" :> FDec(55, 100))
           @@ "keywords" :> <<"polished metal surface with tinted reflections",
                 "lustrous chrome or gold sheen with color cast",
                 "curved metallic body reflecting compressed panorama",
                 "industrial gleam with directional highlight streaks",
                 "warm or cool metallic tint over reflected imagery",
                 "high-fidelity metal reflection with material color">>
           @@ "optical_properties" :> ("finish" :> "metallic_specular"
               @@ "dominant_wavelength" :> "material_tinted"
               @@ "edge_quality" :> "sharp_with_color_shift"
               @@ "luminosity" :> "high_tinted")
           @@ "color_associations" :> <<"chrome silver-blue tint",
                 "copper warm orange cast",
                 "gold rich yellow overlay",
                 "brushed metal directional grain">>)
    @@ "rain_noir" :>
        ("coords" :> ("reflection_clarity" :> FDec(5, 10)
               @@ "surface_roughness" :> FDec(3, 10)
               @@ "metallic_character" :> FDec(0, 1)
               @@ "geometric_distortion" :> FDec(5, 100)
               @@ "environmental_drama" :> FDec(95, 100))
           @@ "keywords" :> <<"rain-slicked pavement reflecting neon city lights",
                 "wet street mirror with elongated colored streaks",
                 "dark puddle pools capturing inverted urban glow",
                 "high-contrast night reflections on glossy asphalt",
                 "cinematic wet-ground reflection with dramatic atmosphere",
                 "noir lighting doubled in rain-polished surfaces">>
           @@ "optical_properties" :> ("finish" :> "wet_glossy"
               @@ "dominant_wavelength" :> "neon_multicolor"
               @@ "edge_quality" :> "soft_elongated"
               @@ "luminosity" :> "contrast_extremes")
           @@ "color_associations" :> <<"neon pink and blue streaks",
                 "deep black wet asphalt",
                 "sodium yellow streetlight pools",
                 "reflected signage colors">>)
    @@ "caustic_dance" :>
        ("coords" :> ("reflection_clarity" :> FDec(35, 100)
               @@ "surface_roughness" :> FDec(4, 10)
               @@ "metallic_character" :> FDec(0, 1)
               @@ "geometric_distortion" :> FDec(45, 100)
               @@ "environmental_drama" :> FDec(55, 100))
           @@ "keywords" :> <<"dancing caustic light patterns on moving water",
                 "rippled surface fragmenting reflected scene",
                 "shimmering refracted light network across pool floor",
                 "liquid surface with constantly shifting mirror fragments",
                 "warm water reflections breaking into luminous ribbons",
                 "organic distortion patterns from wave interference">>
           @@ "optical_properties" :> ("finish" :> "animated_caustic"
               @@ "dominant_wavelength" :> "scene_fragmented"
               @@ "edge_quality" :> "undulating_soft"
               @@ "luminosity" :> "dappled_variable")
           @@ "color_associations" :> <<"turquoise water-filtered light",
                 "shifting warm gold patches",
                 "blue-green refracted caustic network",
                 "white dancing highlights">>)
    @@ "frost_diffuse" :>
        ("coords" :> ("reflection_clarity" :> FDec(1, 10)
               @@ "surface_roughness" :> FDec(85, 100)
               @@ "metallic_character" :> FDec(0, 1)
               @@ "geometric_distortion" :> FDec(5, 100)
               @@ "environmental_drama" :> FDec(15, 100))
           @@ "keywords" :> <<"heavy frosted glass with complete diffusion",
                 "matte translucent surface scattering all light",
                 "soft luminous glow through textured privacy glass",
                 "no distinct reflection only ambient scattered radiance",
                 "ethereal backlit frost with gentle gradients",
                 "ice-crystal surface texture dissolving all imagery">>
           @@ "optical_properties" :> ("finish" :> "full_diffuse"
               @@ "dominant_wavelength" :> "scattered_white"
               @@ "edge_quality" :> "fully_dissolved"
               @@ "luminosity" :> "low_ambient_glow")
           @@ "color_associations" :> <<"milky translucent white",
                 "soft blue-gray scattered light",
                 "pale frost gradient",
                 "warm backlight halo through glass">>)
    @@ "faceted_prism" :>
        ("coords" :> ("reflection_clarity" :> FDec(7, 10)
               @@ "surface_roughness" :> FDec(12, 100)
               @@ "metallic_character" :> FDec(75, 100)
               @@ "geometric_distortion" :> FDec(65, 100)
               @@ "environmental_drama" :> FDec(55, 100))
           @@ "keywords" :> <<"faceted crystal surface with fragmented reflections",
                 "geometric prismatic separation of reflected scene",
                 "cut-glass or gemstone multi-angle mirror planes",
                 "each facet capturing a different perspective",
                 "sharp-edged geometric reflection kaleidoscope",
                 "architectural glass reflecting in discrete angular panels">>
           @@ "optical_properties" :> ("finish" :> "faceted_specular"
               @@ "dominant_wavelength" :> "prismatic_split"
               @@ "edge_quality" :> "sharp_geometric_borders"
               @@ "luminosity" :> "high_variable_per_facet")
           @@ "color_associations" :> <<"rainbow prismatic edge glints",
                 "clear facet reflection panels",
                 "warm copper or silver tinted planes",
                 "sharp white highlight vertices">>)


\* list(REFLECTION_VISUAL_TYPES.keys()): the keys in declaration order
REFLECTION_VISUAL_TYPES_KEYS ==
    <<"perfect_mirror",
      "metallic_gleam",
      "rain_noir",
      "caustic_dance",
      "frost_diffuse",
      "faceted_prism">>


(***************************************************************************)
(* str: the methods the tools call on their text arguments.  A string is   *)
(* taken apart into its characters with SubSeq.                            *)
(***************************************************************************)
\* the upper-case ASCII letters and their lower-case forms
ASCII_UPPER == "ABCDEFGHIJKLMNOPQRSTUVWXYZ"
ASCII_LOWER == "abcdefghijklmnopqrstuvwxyz"

CharAt(s, i) == SubSeq(s, i, i)

\* the lower-case form of every upper-case letter
TO_LOWER == [c \in {CharAt(ASCII_UPPER, k) : k \in 1..Len(ASCII_UPPER)} |->
                CharAt(ASCII_LOWER,
                       CHOOSE k \in 1..Len(ASCII_UPPER) : CharAt(ASCII_UPPER, k) = c)]

\* c.lower() of one character
LowerChar(c) == IF c \in DOMAIN TO_LOWER THEN TO_LOWER[c] ELSE c

RECURSIVE LowerFrom(_, _)
LowerFrom(s, i) ==
    IF i > Len(s) THEN "" ELSE LowerChar(CharAt(s, i)) \o LowerFrom(s, i + 1)

\* s.lower()
Lower(s) == LowerFrom(s, 1)

RECURSIVE ReplaceFrom(_, _, _, _)
ReplaceFrom(s, old, new, i) ==
    IF i > Len(s) THEN ""
    ELSE (IF CharAt(s, i) = old THEN new ELSE CharAt(s, i))
         \o ReplaceFrom(s, old, new, i + 1)

\* s.replace(old, new) for a one-character old
Replace(s, old, new) == ReplaceFrom(s, old, new, 1)

\* needle in hay
Contains(hay, needle) ==
    \E i \in 1..(Len(hay) - Len(needle) + 1) :
        SubSeq(hay, i, i + Len(needle) - 1) = needle

(***************************************************************************)
(* Python dicts are functions from their keys; lists are sequences.        *)
(***************************************************************************)
\* d.get(k, default)
Get(d, k, default) == IF k \in DOMAIN d THEN d[k] ELSE default

\* a slice that loses its last element
SliceShort(xs, lo, hi) ==
    LET l == IF lo > Len(xs) THEN Len(xs) ELSE lo
        h == IF hi > Len(xs) THEN Len(xs) ELSE hi
    IN  IF h <= l + 1 THEN <<>> ELSE [k \in 1..(h - l - 1) |-> xs[l + k]]

\* xs[lo:hi] for 0 <= lo, hi (indices beyond the end are clipped)
Slice(xs, lo, hi) ==
    LET l == IF lo > Len(xs) THEN Len(xs) ELSE lo
        h == IF hi > Len(xs) THEN Len(xs) ELSE hi
    IN  IF h <= l THEN <<>> ELSE [k \in 1..(h - l) |-> xs[l + k]]

\* the elements of a list, as a set
Elems(xs) == {xs[k] : k \in DOMAIN xs}

(***************************************************************************)
(* Phase 2.6: oscillation and interpolation.                               *)
(***************************************************************************)
\* a waveform without the rescaling of the sine to [0, 1]
OscillationAlphaUnscaled(num_steps, num_cycles, pattern, i) ==
    FSin(FDiv(FMul(FMul(FMul(FTwo, FPi), num_cycles), FInt(i)),
              FInt(num_steps)))

\* a waveform that knows the three kinds only: any other name yields 0
OscillationAlphaStrict(num_steps, num_cycles, pattern, i) ==
    Let([t \in {FDiv(FMul(FMul(FMul(FTwo, FPi), num_cycles), FInt(i)), FInt(num_steps))} |->
    IF pattern \in {"triangular", "square"}
    THEN Let([t_norm \in {FMod1(FDiv(t, FMul(FTwo, FPi)))} |->
             IF pattern = "triangular"
             THEN FMul(FTwo, IF FLt(t_norm, FHalf) THEN t_norm
                             ELSE FSub(FOne, t_norm))
             ELSE IF FLt(t_norm, FHalf) THEN FZero ELSE FOne])
    ELSE IF pattern = "sinusoidal" THEN FMul(FHalf, FAdd(FOne, FSin(t)))
    ELSE FZero])

\* the alpha appended for step i of _generate_reflection_oscillation
OscillationAlpha(num_steps, num_cycles, pattern, i) ==
    Let([t \in {FDiv(FMul(FMul(FMul(FTwo, FPi), num_cycles), FInt(i)), FInt(num_steps))} |->
    IF pattern \in {"triangular", "square"}
    THEN Let([t_norm \in {FMod1(FDiv(t, FMul(FTwo, FPi)))} |->
             IF pattern = "triangular"
             THEN FMul(FTwo, IF FLt(t_norm, FHalf) THEN t_norm
                             ELSE FSub(FOne, t_norm))
             ELSE IF FLt(t_norm, FHalf) THEN FZero ELSE FOne])
    \* "sinusoidal", and the fallback of every other pattern name
    ELSE FMul(FHalf, FAdd(FOne, FSin(t)))])

\* num_steps an int, num_cycles a float; values[i + 1] is the alpha of step i
_generate_reflection_oscillation(num_steps, num_cycles, pattern) ==
    [k \in 1..num_steps |->
        OscillationAlpha(num_steps, num_cycles, pattern, k - 1)]

_get_reflection_state_coords(state_id) ==
    Let([state \in {REFLECTION_CANONICAL_STATES[state_id]} |->
        [p \in Elems(REFLECTION_PARAMETER_NAMES) |-> state[p]]])

\* an interpolation with the weights of the two states exchanged
InterpolateSwapped(state_a, state_b, alpha) ==
    [p \in Elems(REFLECTION_PARAMETER_NAMES) |->
        FAdd(FMul(state_a[p], alpha), FMul(state_b[p], FSub(FOne, alpha)))]

\* an interpolation that does not scale the first state back
InterpolateUnweighted(state_a, state_b, alpha) ==
    [p \in Elems(REFLECTION_PARAMETER_NAMES) |->
        FAdd(state_a[p], FMul(state_b[p], alpha))]

_interpolate_reflection_states(state_a, state_b, alpha) ==
    [p \in Elems(REFLECTION_PARAMETER_NAMES) |->
        FAdd(FMul(state_a[p], FSub(FOne, alpha)), FMul(state_b[p], alpha))]

(***************************************************************************)
(* Phase 2.7: nearest visual type.                                         *)
(***************************************************************************)
\* a distance loop that reads the state against the default alone
RECURSIVE DistanceLoopToCentre(_, _, _, _)
DistanceLoopToCentre(state, target, i, total) ==
    IF i > Len(REFLECTION_PARAMETER_NAMES) THEN total
    ELSE Let([p \in {REFLECTION_PARAMETER_NAMES[i]} |->
         Let([diff \in {FSub(Get(state, p, FHalf), FHalf)} |->
             DistanceLoopToCentre(state, target, i + 1, FAdd(total, FMul(diff, diff)))])])

\* the loop of _reflection_param_distance from the i-th dimension on
RECURSIVE DistanceLoop(_, _, _, _)
DistanceLoop(state, target, i, total) ==
    IF i > Len(REFLECTION_PARAMETER_NAMES) THEN total
    ELSE Let([p \in {REFLECTION_PARAMETER_NAMES[i]} |->
         Let([diff \in {FSub(Get(state, p, FHalf), Get(target, p, FHalf))} |->
             DistanceLoop(state, target, i + 1, FAdd(total, FMul(diff, diff)))])])

_reflection_param_distance(state, target) ==
    FSqrt(DistanceLoop(state, target, 1, FZero))

\* a search in which a later type at an equal distance replaces the best
RECURSIVE NearestLoopLastWins(_, _, _)
NearestLoopLastWins(state, i, best) ==
    IF i > Len(REFLECTION_VISUAL_TYPES_KEYS) THEN best
    ELSE Let([type_name \in {REFLECTION_VISUAL_TYPES_KEYS[i]} |->
         Let([type_data \in {REFLECTION_VISUAL_TYPES[type_name]} |->
         Let([dist \in {FSqrt(DistanceLoop(state, type_data["coords"], 1, FZero))} |->
             NearestLoopLastWins(state, i + 1,
                 IF FLe(dist, best[2])
                 THEN <<type_name, dist, type_data>> ELSE best)])])])

\* a search that keeps the type at the greatest distance
RECURSIVE NearestLoopFarthest(_, _, _)
NearestLoopFarthest(state, i, best) ==
    IF i > Len(REFLECTION_VISUAL_TYPES_KEYS) THEN best
    ELSE Let([type_name \in {REFLECTION_VISUAL_TYPES_KEYS[i]} |->
         Let([type_data \in {REFLECTION_VISUAL_TYPES[type_name]} |->
         Let([dist \in {FSqrt(DistanceLoop(state, type_data["coords"], 1, FZero))} |->
             NearestLoopFarthest(state, i + 1,
                 IF best[2] = FInf \/ FLt(best[2], dist)
                 THEN <<type_name, dist, type_data>> ELSE best)])])])

\* the loop of _find_nearest_reflection_visual_type from the i-th type on;
\* best is <<best_name, best_dist, best_data>>
RECURSIVE NearestLoop(_, _, _)
NearestLoop(state, i, best) ==
    IF i > Len(REFLECTION_VISUAL_TYPES_KEYS) THEN best
    ELSE Let([type_name \in {REFLECTION_VISUAL_TYPES_KEYS[i]} |->
         Let([type_data \in {REFLECTION_VISUAL_TYPES[type_name]} |->
         Let([dist \in {_reflection_param_distance(state, type_data["coords"])} |->
             NearestLoop(state, i + 1,
                 IF FLt(dist, best[2])
                 THEN <<type_name, dist, type_data>> ELSE best)])])])

_find_nearest_reflection_visual_type(state) ==
    NearestLoop(state, 1, <<PyNone, FInf, PyNone>>)

(***************************************************************************)
(* Layer 2 tools.  A tool is modelled by the dict it hands to json.dumps   *)
(* (Return) or by the exception that leaves it (Raise).                    *)
(***************************************************************************)
map_material_properties(material_id) ==
    IF material_id \notin Elems(SURFACE_MATERIALS_KEYS)
    THEN Return("error" :> ("Unknown material: " \o material_id)
                @@ "available_materials" :> SURFACE_MATERIALS_KEYS)
    ELSE Let([material \in {SURFACE_MATERIALS[material_id]} |->
         Let([reflection_type \in {REFLECTION_TYPES[material["reflection_type"]]} |->
             Return(
                "material" :> material
                @@ "reflection_behavior" :> reflection_type
                @@ "composition_guidance" :>
                     ("reflection_strength" :> material["reflection_coefficient"]
                      @@ "surface_clarity" :> reflection_type["clarity"]
                      @@ "distortion_level" :> reflection_type["distortion"]
                      @@ "keywords" :>
                           material["keywords"] \o reflection_type["keywords"])
                @@ "cost" :> "0 tokens - deterministic lookup")])])

\* the bands of a Fresnel intensity cut at the thresholds of the visibility
\* score (0.7, 0.4, 0.2)
FresnelBandAtVisibilityCuts(fresnel_intensity) ==
    IF FLt(FDec(7, 10), fresnel_intensity) THEN
        <<"dominant", "Strong reflection, nearly mirror-like. Use as primary visual element.">>
    ELSE IF FLt(FDec(4, 10), fresnel_intensity) THEN
        <<"prominent", "Visible reflection blending with surface. Balance reflection and material properties.">>
    ELSE IF FLt(FDec(2, 10), fresnel_intensity) THEN
        <<"subtle", "Gentle reflection accent. Emphasize surface material over reflection.">>
    ELSE
        <<"minimal", "Very weak reflection. Focus on material properties and transmitted/scattered light.">>

\* the prominence band of a Fresnel intensity and its guidance
FresnelBand(fresnel_intensity) ==
    IF FLt(FDec(8, 10), fresnel_intensity) THEN
        <<"dominant", "Strong reflection, nearly mirror-like. Use as primary visual element.">>
    ELSE IF FLt(FDec(5, 10), fresnel_intensity) THEN
        <<"prominent", "Visible reflection blending with surface. Balance reflection and material properties.">>
    ELSE IF FLt(FDec(2, 10), fresnel_intensity) THEN
        <<"subtle", "Gentle reflection accent. Emphasize surface material over reflection.">>
    ELSE
        <<"minimal", "Very weak reflection. Focus on material properties and transmitted/scattered light.">>

\* Schlick's approximation with the cosine taken for its complement
SchlickOfCosine(f0, cos_theta) ==
    FAdd(f0, FMul(FSub(FOne, f0), FPow(cos_theta, 5)))

\* f0 + (1 - f0) * (1 - cos_theta) ** 5
Schlick(f0, cos_theta) ==
    FAdd(f0, FMul(FSub(FOne, f0), FPow(FSub(FOne, cos_theta), 5)))

\* the material compute_fresnel_intensity works with: mirror_glass for an
\* id that is no key of the table
FresnelMaterial(material_id) ==
    IF material_id \notin Elems(SURFACE_MATERIALS_KEYS)
    THEN "mirror_glass" ELSE material_id

\* ior, f0, cos_theta and the unrounded fresnel_intensity of
\* compute_fresnel_intensity; viewing_angle_degrees a float
FresnelTerms(viewing_angle_degrees, material_id) ==
    Let([ior \in {SURFACE_MATERIALS[FresnelMaterial(material_id)]["ior"]} |->
    Let([f0 \in {FPow(FDiv(FSub(ior, FOne), FAdd(ior, FOne)), 2)} |->
    Let([cos_theta \in {FCos(FRadians(viewing_angle_degrees))} |->
        [ior |-> ior, f0 |-> f0, cos_theta |-> cos_theta,
         fresnel_intensity |-> Schlick(f0, cos_theta)]])])])

\* the dict compute_fresnel_intensity dumps
FresnelPayload(viewing_angle_degrees, material_id) ==
    Let([t \in {FresnelTerms(viewing_angle_degrees, material_id)} |->
    Let([band \in {FresnelBand(t.fresnel_intensity)} |->
        "viewing_angle" :> viewing_angle_degrees
        @@ "material" :> FresnelMaterial(material_id)
        @@ "fresnel_intensity" :> FRoundDec(t.fresnel_intensity, 1000)
        @@ "prominence" :> band[1]
        @@ "composition_guidance" :> band[2]
        @@ "optical_parameters" :>
             ("f0_base_reflectance" :> FRoundDec(t.f0, 1000)
              @@ "cos_theta" :> FRoundDec(t.cos_theta, 1000)
              @@ "ior" :> t.ior)
        @@ "cost" :> "0 tokens - deterministic calculation"])])

compute_fresnel_intensity(viewing_angle_degrees, material_id) ==
    Return(FresnelPayload(viewing_angle_degrees, material_id))

\* the bands of an effective visibility cut at the thresholds of the
\* Fresnel intensity (0.8, 0.5, 0.2)
VisibilityBandAtFresnelCuts(effective_visibility) ==
    IF FLt(FDec(8, 10), effective_visibility)
    THEN <<"dominant", "primary visual feature">>
    ELSE IF FLt(FDec(5, 10), effective_visibility)
    THEN <<"prominent", "significant compositional element">>
    ELSE IF FLt(FDec(2, 10), effective_visibility)
    THEN <<"subtle", "accent detail">>
    ELSE <<"minimal", "trace effect">>

\* the prominence band of an effective visibility and its role
VisibilityBand(effective_visibility) ==
    IF FLt(FDec(7, 10), effective_visibility)
    THEN <<"dominant", "primary visual feature">>
    ELSE IF FLt(FDec(4, 10), effective_visibility)
    THEN <<"prominent", "significant compositional element">>
    ELSE IF FLt(FDec(2, 10), effective_visibility)
    THEN <<"subtle", "accent detail">>
    ELSE <<"minimal", "trace effect">>

\* fresnel_intensity is read back from the text compute_fresnel_intensity
\* dumps; a float survives json.dumps and json.loads unchanged
analyze_reflection_context(material_id, geometry, environment, viewing_angle_degrees) ==
    IF material_id \notin Elems(SURFACE_MATERIALS_KEYS)
    THEN Return("error" :> ("Unknown material: " \o material_id))
    ELSE IF geometry \notin Elems(GEOMETRY_FACTORS_KEYS)
    THEN Return("error" :> ("Unknown geometry: " \o geometry))
    ELSE IF environment \notin Elems(ENVIRONMENTAL_CONTEXTS_KEYS)
    THEN Return("error" :> ("Unknown environment: " \o environment))
    ELSE
    Let([material \in {SURFACE_MATERIALS[material_id]} |->
    Let([geom \in {GEOMETRY_FACTORS[geometry]} |->
    Let([env \in {ENVIRONMENTAL_CONTEXTS[environment]} |->
    Let([refl_type \in {REFLECTION_TYPES[material["reflection_type"]]} |->
    Let([fresnel_intensity \in {compute_fresnel_intensity(viewing_angle_degrees, material_id)
                                    .payload["fresnel_intensity"]} |->
    Let([geom_clarity \in {FSub(FOne, geom["reflection_distortion"])} |->
    Let([effective_visibility \in {FMul(FMul(FMul(material["reflection_coefficient"], fresnel_intensity),
                                             env["reflection_visibility"]),
                                        geom_clarity)} |->
    Let([total_distortion \in {FAdd(FMul(material["roughness"], FHalf),
                                    FMul(geom["reflection_distortion"], FHalf))} |->
    Let([band \in {VisibilityBand(effective_visibility)} |->
        Return(
           "scenario" :>
                ("material" :> material_id
                 @@ "geometry" :> geometry
                 @@ "environment" :> environment
                 @@ "viewing_angle" :> viewing_angle_degrees)
           @@ "reflection_parameters" :>
                ("effective_visibility" :> FRoundDec(effective_visibility, 1000)
                 @@ "distortion_index" :> FRoundDec(total_distortion, 1000)
                 @@ "clarity" :>
                      FRoundDec(FMul(refl_type["clarity"], geom_clarity), 1000)
                 @@ "fresnel_contribution" :> FRoundDec(fresnel_intensity, 1000))
           @@ "composition_guidance" :>
                ("prominence" :> band[1]
                 @@ "compositional_role" :> band[2]
                 @@ "contrast_ratio" :> env["contrast_ratio"]
                 @@ "light_intensity" :> env["light_intensity"])
           @@ "image_generation_vocabulary" :>
                ("keywords" :> material["keywords"] \o refl_type["keywords"]
                               \o geom["keywords"] \o env["keywords"]
                 @@ "optical_properties" :>
                      ("reflection_coefficient" :> material["reflection_coefficient"]
                       @@ "roughness" :> material["roughness"]
                       @@ "metallic" :> material["metallic"]
                       @@ "ior" :> material["ior"]
                       @@ "color_tint" :> material["color_tint"])
                 @@ "lighting_guidance" :>
                      ("color_temperature" :> env["color_temperature"]
                       @@ "intensity" :> env["light_intensity"]))
           @@ "cost" :> "0 tokens - deterministic analysis")])])])])])])])])])

\* a label recomputed from the scaled visibility
ScaledProminence(analysis, reflection_prominence) ==
    VisibilityBand(FMul(analysis["reflection_parameters"]["effective_visibility"],
                        reflection_prominence))[1]

\* the prominence label generate_reflection_prompt_enhancement reports
EnhancementProminence(analysis, reflection_prominence) ==
    analysis["composition_guidance"]["prominence"]

\* the dict generate_reflection_prompt_enhancement dumps for an analysis
\* without an error; primary_keywords[0] of an empty list is an IndexError
EnhancementPayload(analysis, base_prompt, material_id, geometry, environment, viewing_angle, reflection_prominence, style_modifier) ==
    Let([reflection_params \in {analysis["reflection_parameters"]} |->
    Let([keywords \in {analysis["image_generation_vocabulary"]["keywords"]} |->
    Let([effective_visibility \in {FMul(reflection_params["effective_visibility"],
                                        reflection_prominence)} |->
    Let([primary_keywords \in {Slice(keywords, 0, 4)} |->
    Let([secondary_keywords \in {Slice(keywords, 4, 8)} |->
        IF primary_keywords = <<>> THEN Raise("IndexError")
        ELSE Return(
           "base_prompt" :> base_prompt
           @@ "reflection_enhancement" :>
                ("primary_descriptors" :> primary_keywords
                 @@ "secondary_descriptors" :> secondary_keywords
                 @@ "effective_visibility" :> FRoundDec(effective_visibility, 1000)
                 @@ "prominence" :> EnhancementProminence(analysis, reflection_prominence))
           @@ "technical_parameters" :>
                ("material" :> material_id
                 @@ "geometry" :> geometry
                 @@ "optical_properties" :>
                      analysis["image_generation_vocabulary"]["optical_properties"]
                 @@ "lighting" :>
                      analysis["image_generation_vocabulary"]["lighting_guidance"]
                 @@ "viewing_angle" :> viewing_angle)
           @@ "suggested_prompt_structure" :>
                ("order" :>
                      <<"1. Base scene description",
                        "2. Surface material specification",
                        "3. Reflection characteristics",
                        "4. Lighting and environment",
                        "5. Viewing angle/perspective",
                        "6. Style modifier (if any)">>
                 @@ "example_integration" :>
                      (base_prompt \o ", " \o Replace(material_id, "_", " ")
                       \o " surface with " \o primary_keywords[1] \o ", "
                       \o Replace(environment, "_", " ") \o " lighting"))
           @@ "style_modifier" :> style_modifier
           @@ "cost_profile" :>
                ("layer_2_deterministic" :> "0 tokens"
                 @@ "layer_3_synthesis" :>
                      "Claude composes final prompt from this data"))])])])])])

\* the analysis is read back from the text analyze_reflection_context dumps
generate_reflection_prompt_enhancement(base_prompt, material_id, geometry, environment, viewing_angle, reflection_prominence, style_modifier) ==
    Let([analysis \in {analyze_reflection_context(material_id, geometry, environment,
                                                  viewing_angle).payload} |->
        IF "error" \in DOMAIN analysis THEN Return(analysis)
        ELSE EnhancementPayload(analysis, base_prompt, material_id, geometry,
                                environment, viewing_angle, reflection_prominence,
                                style_modifier)])

\* the lists of a list of lists, one after the other, from the i-th on
RECURSIVE Concat(_, _)
Concat(lists, i) ==
    IF i > Len(lists) THEN <<>> ELSE lists[i] \o Concat(lists, i + 1)

\* <<x>> if the test holds, nothing otherwise: an append under an if
AppendIf(test, x) == IF test THEN <<x>> ELSE <<>>

\* the loop over a keyword list that stops at the first keyword found in
\* the prompt
AnyKeyword(keywords, prompt_lower) ==
    \E k \in DOMAIN keywords : Contains(prompt_lower, Lower(keywords[k]))

\* a scan that looks for the identifier as it is written in the table
ScanVerbatim(table, keys, prompt_lower) ==
    Concat([k \in DOMAIN keys |->
               AppendIf(Contains(prompt_lower, keys[k]), keys[k])
               \o AppendIf(AnyKeyword(table[keys[k]]["keywords"], prompt_lower), keys[k])],
           1)

\* the scan of phenomena and of environments: the identifier with its
\* underscores replaced by spaces, then the keywords
ScanSpaced(table, keys, prompt_lower) ==
    Concat([k \in DOMAIN keys |->
               AppendIf(Contains(prompt_lower, Replace(keys[k], "_", " ")), keys[k])
               \o AppendIf(AnyKeyword(table[keys[k]]["keywords"], prompt_lower), keys[k])],
           1)

\* the lists of detect_reflection_keywords before duplicates are removed
Detected(prompt_lower) ==
    "materials" :>
        Concat([k \in DOMAIN SURFACE_MATERIALS_KEYS |->
                   Let([mat_id \in {SURFACE_MATERIALS_KEYS[k]} |->
                       AppendIf(Contains(prompt_lower, Replace(mat_id, "_", " ")), mat_id)
                       \o AppendIf(Contains(prompt_lower,
                                            Lower(SURFACE_MATERIALS[mat_id]["name"])),
                                   mat_id)])],
               1)
    @@ "reflection_types" :>
        ScanVerbatim(REFLECTION_TYPES, REFLECTION_TYPES_KEYS, prompt_lower)
    @@ "geometries" :>
        Concat([k \in DOMAIN GEOMETRY_FACTORS_KEYS |->
                   AppendIf(Contains(prompt_lower, GEOMETRY_FACTORS_KEYS[k]),
                            GEOMETRY_FACTORS_KEYS[k])],
               1)
    @@ "phenomena" :>
        ScanSpaced(OPTICAL_PHENOMENA, OPTICAL_PHENOMENA_KEYS, prompt_lower)
    @@ "environments" :>
        ScanSpaced(ENVIRONMENTAL_CONTEXTS, ENVIRONMENTAL_CONTEXTS_KEYS, prompt_lower)

\* list(set(xs)): the elements of xs once each, in the order the set
\* iterates, which follows the hashes of the strings and differs from one
\* process to the next; every order is an outcome
RECURSIVE Orders(_)
Orders(S) ==
    IF S = {} THEN {<<>>}
    ELSE UNION {{<<x>> \o rest : rest \in Orders(S \ {x})} : x \in S}

ListOfSet(xs) == Orders(Elems(xs))

\* the suggestions of detect_reflection_keywords for its deduplicated lists
Suggestions(detected, prompt_lower) ==
    (IF detected["materials"] = <<>>
     THEN IF Contains(prompt_lower, "mirror") \/ Contains(prompt_lower, "reflection")
          THEN <<"Consider: mirror_glass or polished_chrome">>
          ELSE IF Contains(prompt_lower, "water")
          THEN <<"Consider: still_water or rippled_water">>
          ELSE IF Contains(prompt_lower, "metal")
          THEN <<"Consider: polished_chrome, copper, or gold">>
          ELSE <<>>
     ELSE <<>>)
    \o AppendIf(detected["geometries"] = <<>>,
                "Consider specifying geometry: flat, convex, concave, compound, or faceted")
    \o AppendIf(detected["environments"] = <<>>,
                "Consider lighting context: bright_daylight, golden_hour, or night_urban")

\* the dict detect_reflection_keywords dumps for its deduplicated lists
DetectPayload(detected, prompt_lower) ==
    "detected" :> detected
    @@ "suggestions" :> Suggestions(detected, prompt_lower)
    @@ "has_reflection_content" :> (\E key \in DOMAIN detected : detected[key] # <<>>)
    @@ "cost" :> "0 tokens - pattern matching"

\* the results detect_reflection_keywords can return for a prompt: one for
\* every order in which the five sets can iterate
detect_reflection_keywords(prompt) ==
    Let([prompt_lower \in {Lower(prompt)} |->
    Let([found \in {Detected(prompt_lower)} |->
        {Return(DetectPayload("materials" :> m @@ "reflection_types" :> r
                              @@ "geometries" :> g @@ "phenomena" :> p
                              @@ "environments" :> e,
                              prompt_lower)) :
            m \in ListOfSet(found["materials"]),
            r \in ListOfSet(found["reflection_types"]),
            g \in ListOfSet(found["geometries"]),
            p \in ListOfSet(found["phenomena"]),
            e \in ListOfSet(found["environments"])}])])

\* json.loads(text): the decoded document, or JSONDecodeError
JsonLoads(text) ==
    IF text.wf THEN Return(text.value) ELSE Raise("JSONDecodeError")

\* the first loop of compare_reflection_scenarios from the i-th scenario
\* on: the list of analyses, or the exception that ends the loop
RECURSIVE AnalysesFrom(_, _, _)
AnalysesFrom(scenario_list, i, analyses) ==
    IF i > Len(scenario_list) THEN Return(analyses)
    ELSE Let([scenario \in {scenario_list[i]} |->
         IF scenario.j # "object" THEN Raise("AttributeError")
         ELSE
         Let([item \in {"label" :> Get(scenario.fields, "label", JStr("Unlabeled")).str
                        @@ "scenario" :> scenario
                        @@ "analysis" :>
                             analyze_reflection_context(
                                 Get(scenario.fields, "material_id", JStr("mirror_glass")).str,
                                 Get(scenario.fields, "geometry", JStr("flat")).str,
                                 Get(scenario.fields, "environment", JStr("bright_daylight")).str,
                                 Get(scenario.fields, "viewing_angle", JNum(FInt(45))).num
                             ).payload} |->
             AnalysesFrom(scenario_list, i + 1, Append(analyses, item))])])

\* the smallest taken with the comparison turned round
RECURSIVE FMinFromFlipped(_, _, _)
FMinFromFlipped(xs, i, best) ==
    IF i > Len(xs) THEN best
    ELSE FMinFromFlipped(xs, i + 1, IF FLt(best, xs[i]) THEN xs[i] ELSE best)

\* min(xs) and max(xs) of a non-empty list of floats
RECURSIVE FMinFrom(_, _, _)
FMinFrom(xs, i, best) ==
    IF i > Len(xs) THEN best
    ELSE FMinFrom(xs, i + 1, IF FLt(xs[i], best) THEN xs[i] ELSE best)

RECURSIVE FMaxFrom(_, _, _)
FMaxFrom(xs, i, best) ==
    IF i > Len(xs) THEN best
    ELSE FMaxFrom(xs, i + 1, IF FLt(best, xs[i]) THEN xs[i] ELSE best)

FMin(xs) == FMinFrom(xs, 2, xs[1])
FMax(xs) == FMaxFrom(xs, 2, xs[1])

\* {"min": ..., "max": ..., "delta": ...} of a range list
Span(xs) ==
    "min" :> FRoundDec(FMin(xs), 1000)
    @@ "max" :> FRoundDec(FMax(xs), 1000)
    @@ "delta" :> FRoundDec(FSub(FMax(xs), FMin(xs)), 1000)

\* the second loop and the rest of compare_reflection_scenarios
Comparison(analyses) ==
    IF \E k \in DOMAIN analyses :
           "reflection_parameters" \notin DOMAIN analyses[k]["analysis"]
    THEN Raise("KeyError")
    ELSE
    LET params(k)   == analyses[k]["analysis"]["reflection_parameters"]
        guidance(k) == analyses[k]["analysis"]["composition_guidance"]
    IN
    Let([vis_range \in {[k \in DOMAIN analyses |-> params(k)["effective_visibility"]]} |->
    Let([dist_range \in {[k \in DOMAIN analyses |-> params(k)["distortion_index"]]} |->
    Let([visibility_span \in {Span(vis_range)} |->
    Let([distortion_span \in {Span(dist_range)} |->
    Let([trade_offs \in {(IF FLt(FDec(4, 10), visibility_span["delta"])
                          THEN <<"Significant visibility variation - creates strong compositional contrast">>
                          ELSE <<>>)
                         \o
                         (IF FLt(FDec(3, 10), distortion_span["delta"])
                          THEN <<"High distortion variation - geometric effects will be prominent differentiator">>
                          ELSE <<>>)} |->
        Return(
           "scenarios" :>
                [k \in DOMAIN analyses |->
                    "label" :> analyses[k]["label"]
                    @@ "visibility" :> params(k)["effective_visibility"]
                    @@ "distortion" :> params(k)["distortion_index"]
                    @@ "prominence" :> guidance(k)["prominence"]
                    @@ "role" :> guidance(k)["compositional_role"]]
           @@ "comparative_insights" :>
                ("visibility_range" :> vis_range
                 @@ "distortion_range" :> dist_range
                 @@ "contrast_range" :>
                      [k \in DOMAIN analyses |-> guidance(k)["contrast_ratio"]]
                 @@ "aesthetic_trade_offs" :> trade_offs
                 @@ "visibility_span" :> visibility_span
                 @@ "distortion_span" :> distortion_span)
           @@ "cost" :> "0 tokens - deterministic comparison")])])])])])

\* a comparison that accepts a list of one scenario
CompareFromOne(scenarios) ==
    LET loaded == JsonLoads(scenarios)
    IN  IF loaded.kind = "raise"
        THEN Return("error" :> "Invalid JSON format for scenarios")
        ELSE IF loaded.payload.j # "array" \/ Len(loaded.payload.items) < 1
        THEN Return("error" :> "Provide at least 2 scenarios as JSON array")
        ELSE Let([analyses \in {AnalysesFrom(loaded.payload.items, 1, <<>>)} |->
                 IF analyses.kind = "raise" THEN analyses
                 ELSE Comparison(analyses.payload)])

\* scenarios is a text argument
compare_reflection_scenarios(scenarios) ==
    LET loaded == JsonLoads(scenarios)
    IN  IF loaded.kind = "raise"
        THEN Return("error" :> "Invalid JSON format for scenarios")
        ELSE
        LET scenario_list == loaded.payload
        IN  IF scenario_list.j # "array" \/ Len(scenario_list.items) < 2
            THEN Return("error" :> "Provide at least 2 scenarios as JSON array")
            ELSE Let([analyses \in {AnalysesFrom(scenario_list.items, 1, <<>>)} |->
                     IF analyses.kind = "raise" THEN analyses
                     ELSE Comparison(analyses.payload)])

(***************************************************************************)
(* Phase 2.6 tools.                                                        *)
(***************************************************************************)
\* the last offset_steps samples moved to the front
RotatedRight(alphas, offset_steps) ==
    LET cut == IF offset_steps > Len(alphas) THEN 0 ELSE Len(alphas) - offset_steps
    IN  Slice(alphas, cut, Len(alphas)) \o Slice(alphas, 0, cut)

\* alphas[offset_steps:] + alphas[:offset_steps]
Rotated(alphas, offset_steps) ==
    Slice(alphas, offset_steps, Len(alphas)) \o Slice(alphas, 0, offset_steps)

\* an unknown-state payload without the list of the valid names
UnknownStateBare(state_id) ==
    Return("error" :> ("Unknown state: " \o state_id))

\* the payload returned for a state id that is no key of the table
UnknownState(state_id) ==
    Return("error" :> ("Unknown state: " \o state_id)
           @@ "available" :> REFLECTION_CANONICAL_STATES_KEYS)

\* num_cycles is a Python number, steps_per_cycle an int, phase_offset a
\* float.  range(total_steps) accepts an int only: the product of a float
\* cycle count and the step count is a float, and the call raises.
generate_rhythmic_reflection_sequence(state_a_id, state_b_id, oscillation_pattern, num_cycles, steps_per_cycle, phase_offset) ==
    IF state_a_id \notin Elems(REFLECTION_CANONICAL_STATES_KEYS)
    THEN UnknownState(state_a_id)
    ELSE IF state_b_id \notin Elems(REFLECTION_CANONICAL_STATES_KEYS)
    THEN UnknownState(state_b_id)
    ELSE IF num_cycles.py # "int" THEN Raise("TypeError")
    ELSE
    Let([total_steps \in {num_cycles.v * steps_per_cycle} |->
    Let([generated \in {_generate_reflection_oscillation(
                            total_steps, ToFloat(num_cycles), oscillation_pattern)} |->
    Let([offset_steps \in {FTrunc(FMul(phase_offset, FInt(steps_per_cycle)))} |->
    Let([alphas \in {IF FLt(FZero, phase_offset)
                     THEN Rotated(generated, offset_steps)
                     ELSE generated} |->
    Let([coords \in {[id \in {state_a_id, state_b_id} |-> _get_reflection_state_coords(id)]} |->
    Let([sequence \in {[k \in 1..Len(alphas) |->
                           _interpolate_reflection_states(
                               coords[state_a_id], coords[state_b_id], alphas[k])
                           @@ "_step" :> (k - 1)
                           @@ "_alpha" :> FRoundDec(alphas[k], 10000)
                           @@ "_phase" :>
                                FRoundDec(FDiv(FInt((k - 1) % steps_per_cycle),
                                               FInt(steps_per_cycle)), 10000)]} |->
        Return(
           "domain" :> "reflective_surfaces"
           @@ "state_a" :> state_a_id
           @@ "state_b" :> state_b_id
           @@ "oscillation_pattern" :> oscillation_pattern
           @@ "num_cycles" :> num_cycles.v
           @@ "steps_per_cycle" :> steps_per_cycle
           @@ "total_steps" :> total_steps
           @@ "phase_offset" :> phase_offset
           @@ "parameter_names" :> REFLECTION_PARAMETER_NAMES
           @@ "sequence" :> sequence)])])])])])])

\* a preset applied with its cycle count and its steps per cycle exchanged
ApplyPresetExchanged(preset_name) ==
    IF preset_name \notin Elems(REFLECTION_RHYTHMIC_PRESETS_KEYS)
    THEN Return("error" :> ("Unknown preset: " \o preset_name)
                @@ "available" :> REFLECTION_RHYTHMIC_PRESETS_KEYS)
    ELSE Let([cfg \in {REFLECTION_RHYTHMIC_PRESETS[preset_name]} |->
             generate_rhythmic_reflection_sequence(
                 cfg["state_a"], cfg["state_b"], cfg["pattern"],
                 PyInt(cfg["steps_per_cycle"]), cfg["num_cycles"], FZero)])

apply_reflection_rhythmic_preset(preset_name) ==
    IF preset_name \notin Elems(REFLECTION_RHYTHMIC_PRESETS_KEYS)
    THEN Return("error" :> ("Unknown preset: " \o preset_name)
                @@ "available" :> REFLECTION_RHYTHMIC_PRESETS_KEYS)
    ELSE Let([cfg \in {REFLECTION_RHYTHMIC_PRESETS[preset_name]} |->
             generate_rhythmic_reflection_sequence(
                 cfg["state_a"], cfg["state_b"], cfg["pattern"],
                 PyInt(cfg["num_cycles"]), cfg["steps_per_cycle"], FZero)])

(***************************************************************************)
(* Phase 2.7 tools.                                                        *)
(***************************************************************************)
\* the exception that leaves _reflection_param_distance when the decoded
\* document is handed to it as a state ("none" when it computes): a
\* document that is no object has no get, a dimension that is no number
\* cannot be subtracted from
StateFault(doc) ==
    IF doc.j # "object" THEN "AttributeError"
    ELSE IF \E p \in Elems(REFLECTION_PARAMETER_NAMES) \cap DOMAIN doc.fields :
                doc.fields[p].j # "number"
    THEN "TypeError"
    ELSE "none"

\* the dict of floats a decoded object is, on the five dimensions
StateDict(doc) ==
    [p \in Elems(REFLECTION_PARAMETER_NAMES) \cap DOMAIN doc.fields |->
        doc.fields[p].num]

\* {p: state.get(p, 0.5) for p in REFLECTION_PARAMETER_NAMES}
Completed(state) ==
    [p \in Elems(REFLECTION_PARAMETER_NAMES) |-> Get(state, p, FHalf)]

\* sep.join(parts)
RECURSIVE Join(_, _)
Join(parts, sep) ==
    IF parts = <<>> THEN ""
    ELSE IF Len(parts) = 1 THEN parts[1]
    ELSE parts[1] \o sep \o Join(Tail(parts), sep)

\* a prompt with every colour association
PromptOfAllColours(style_modifier, nearest_data) ==
    Join((IF style_modifier # "" THEN <<style_modifier>> ELSE <<>>)
         \o nearest_data["keywords"]
         \o nearest_data["color_associations"], ", ")

\* the prompt of a nearest type: the style modifier if any, the keywords,
\* the first two colour associations
PromptOf(style_modifier, nearest_data) ==
    Join((IF style_modifier # "" THEN <<style_modifier>> ELSE <<>>)
         \o nearest_data["keywords"]
         \o Slice(nearest_data["color_associations"], 0, 2), ", ")

\* {p: round(state.get(p, 0.5), 4) for p in REFLECTION_PARAMETER_NAMES}
RoundedState(state) ==
    [p \in Elems(REFLECTION_PARAMETER_NAMES) |->
        FRoundDec(Get(state, p, FHalf), 10000)]

\* json.loads of a state text, then the state handed to the distance
\* function: the dict of floats, or the exception the first use raises
LoadState(text) ==
    Let([loaded \in {JsonLoads(text)} |->
        IF loaded.kind = "raise" THEN loaded
        ELSE IF StateFault(loaded.payload) # "none"
        THEN Raise(StateFault(loaded.payload))
        ELSE Return(StateDict(loaded.payload))])

\* state is a text argument
extract_reflection_visual_vocabulary(state) ==
    Let([loaded \in {LoadState(state)} |->
        IF loaded.kind = "raise"
        THEN (IF loaded.exc = "JSONDecodeError"
              THEN Return("error" :> "Invalid JSON for state parameter")
              ELSE loaded)
        ELSE
        Let([nearest \in {_find_nearest_reflection_visual_type(loaded.payload)} |->
            Return(
               "nearest_type" :> nearest[1]
               @@ "distance" :> FRoundDec(nearest[2], 10000)
               @@ "keywords" :> nearest[3]["keywords"]
               @@ "optical_properties" :> nearest[3]["optical_properties"]
               @@ "color_associations" :> nearest[3]["color_associations"]
               @@ "parameter_names" :> REFLECTION_PARAMETER_NAMES
               @@ "input_state" :> Completed(loaded.payload))])])

\* the state_dict of the composite branch: the decoded attractor_state,
\* else the midpoint of a known preset's two states, else mirror_still
CompositeState(attractor_state, preset_name, known_preset) ==
    IF attractor_state # PyNone THEN LoadState(attractor_state)
    ELSE Let([ids \in {IF known_preset
                       THEN <<REFLECTION_RHYTHMIC_PRESETS[preset_name.v]["state_a"],
                              REFLECTION_RHYTHMIC_PRESETS[preset_name.v]["state_b"]>>
                       ELSE <<"mirror_still">>} |->
         Let([coords \in {[k \in DOMAIN ids |-> _get_reflection_state_coords(ids[k])]} |->
             Return(IF known_preset
                    THEN _interpolate_reflection_states(coords[1], coords[2], FHalf)
                    ELSE coords[1])])])

\* the composite branch once state_dict is resolved
CompositePrompt(state_dict, preset_name, style_modifier) ==
    Let([nearest \in {_find_nearest_reflection_visual_type(state_dict)} |->
        Return(
           "mode" :> "composite"
           @@ "prompt" :> PromptOf(style_modifier, nearest[3])
           @@ "vocabulary" :>
                ("nearest_type" :> nearest[1]
                 @@ "distance" :> FRoundDec(nearest[2], 10000)
                 @@ "keywords" :> nearest[3]["keywords"]
                 @@ "optical_properties" :> nearest[3]["optical_properties"]
                 @@ "color_associations" :> nearest[3]["color_associations"])
           @@ "source" :>
                ("preset_name" :> preset_name
                 @@ "state" :> RoundedState(state_dict)))])

\* a keyframe interpolated from the second state towards the first
KeyframeReversed(alphas, sa, sb, idx, style_modifier) ==
    Let([alpha \in {alphas[idx + 1]} |->
    Let([state \in {_interpolate_reflection_states(sb, sa, alpha)} |->
    Let([nearest \in {_find_nearest_reflection_visual_type(state)} |->
        "step" :> idx
        @@ "alpha" :> FRoundDec(alpha, 10000)
        @@ "prompt" :> PromptOf(style_modifier, nearest[3])
        @@ "nearest_type" :> nearest[1]
        @@ "distance" :> FRoundDec(nearest[2], 10000)
        @@ "state" :> RoundedState(state)])])])

\* one entry of keyframes, for the step index idx
Keyframe(alphas, sa, sb, idx, style_modifier) ==
    Let([alpha \in {alphas[idx + 1]} |->
    Let([state \in {_interpolate_reflection_states(sa, sb, alpha)} |->
    Let([nearest \in {_find_nearest_reflection_visual_type(state)} |->
        "step" :> idx
        @@ "alpha" :> FRoundDec(alpha, 10000)
        @@ "prompt" :> PromptOf(style_modifier, nearest[3])
        @@ "nearest_type" :> nearest[1]
        @@ "distance" :> FRoundDec(nearest[2], 10000)
        @@ "state" :> RoundedState(state)])])])

\* a step index that divides by the number of keyframes
StepIndexOverCount(i, total_steps, keyframe_count) ==
    FTrunc(FDiv(FInt(i * (total_steps - 1)), FInt(keyframe_count)))

\* int(i * (total_steps - 1) / (keyframe_count - 1)), for keyframe_count
\* other than 1
StepIndex(i, total_steps, keyframe_count) ==
    FTrunc(FDiv(FInt(i * (total_steps - 1)), FInt(keyframe_count - 1)))

\* the sequence branch for a known preset
SequencePrompt(preset_name, style_modifier, keyframe_count) ==
    Let([cfg \in {REFLECTION_RHYTHMIC_PRESETS[preset_name.v]} |->
    Let([total_steps \in {cfg["num_cycles"] * cfg["steps_per_cycle"]} |->
    Let([alphas \in {_generate_reflection_oscillation(
                         total_steps, FInt(cfg["num_cycles"]), cfg["pattern"])} |->
    Let([coords \in {[id \in {cfg["state_a"], cfg["state_b"]} |->
                         _get_reflection_state_coords(id)]} |->
    IF keyframe_count = 1 THEN Raise("ZeroDivisionError")
    ELSE
    Let([step_indices \in {[i \in 1..keyframe_count |->
                               StepIndex(i - 1, total_steps, keyframe_count)]} |->
    Let([keyframes \in {[i \in 1..keyframe_count |->
                            Keyframe(alphas, coords[cfg["state_a"]], coords[cfg["state_b"]],
                                     step_indices[i], style_modifier)]} |->
        Return(
           "mode" :> "sequence"
           @@ "preset" :> preset_name.v
           @@ "description" :> cfg["description"]
           @@ "keyframe_count" :> keyframe_count
           @@ "total_steps" :> total_steps
           @@ "period" :> cfg["steps_per_cycle"]
           @@ "keyframes" :> keyframes)])])])])])])

\* attractor_state is None or a text, preset_name None or a str,
\* keyframe_count an int
generate_reflection_attractor_prompt(attractor_state, preset_name, mode, style_modifier, keyframe_count) ==
    Let([known_preset \in {/\ preset_name # PyNone
                           /\ preset_name.v # ""
                           /\ preset_name.v \in Elems(REFLECTION_RHYTHMIC_PRESETS_KEYS)} |->
    IF mode = "composite" THEN
        Let([state_dict \in {CompositeState(attractor_state, preset_name, known_preset)} |->
            IF state_dict.kind = "raise"
            THEN (IF state_dict.exc = "JSONDecodeError"
                  THEN Return("error" :> "Invalid JSON for attractor_state")
                  ELSE state_dict)
            ELSE CompositePrompt(state_dict.payload, preset_name, style_modifier)])
    ELSE IF mode = "sequence" THEN
        IF ~known_preset
        THEN Return("error" :> "sequence mode requires a valid preset_name"
                    @@ "available" :> REFLECTION_RHYTHMIC_PRESETS_KEYS)
        ELSE SequencePrompt(preset_name, style_modifier, keyframe_count)
    ELSE Return("error" :> ("Unknown mode: " \o mode)
                @@ "available" :> <<"composite", "sequence">>)])

(***************************************************************************)
(* Objects and writes.  The tables are module-level dicts that every call  *)
(* can reach; a statement that assigns to an item of an object or extends  *)
(* a list changes the tables when that object is part of them.  An object  *)
(* is known by where it lives: created in the call in progress, or at a    *)
(* path of keys below a table.                                             *)
(***************************************************************************)
ConstantTables ==
    [REFLECTION_TYPES |-> REFLECTION_TYPES,
     SURFACE_MATERIALS |-> SURFACE_MATERIALS,
     OPTICAL_PHENOMENA |-> OPTICAL_PHENOMENA,
     GEOMETRY_FACTORS |-> GEOMETRY_FACTORS,
     ENVIRONMENTAL_CONTEXTS |-> ENVIRONMENTAL_CONTEXTS,
     REFLECTION_PARAMETER_NAMES |-> REFLECTION_PARAMETER_NAMES,
     REFLECTION_CANONICAL_STATES |-> REFLECTION_CANONICAL_STATES,
     REFLECTION_RHYTHMIC_PRESETS |-> REFLECTION_RHYTHMIC_PRESETS,
     REFLECTION_VISUAL_TYPES |-> REFLECTION_VISUAL_TYPES]

NewObject == [in |-> "call"]

TableObject(path) == [in |-> "tables", path |-> path]

\* obj[key] of a dict of the tables: the object stored there
ItemObject(obj, key) == TableObject(Append(obj.path, key))

\* the list at a path of three keys
ListAt(tbls, obj) == tbls[obj.path[1]][obj.path[2]][obj.path[3]]

\* obj[key] = value
SetItem(tbls, obj, key, value) ==
    IF obj.in = "call" THEN tbls
    ELSE [tbls EXCEPT ![obj.path[1]][obj.path[2]] = (key :> value) @@ @]

\* obj.extend(items), obj.append(x) being obj.extend([x])
Extend(tbls, obj, items) ==
    IF obj.in = "call" THEN tbls
    ELSE [tbls EXCEPT ![obj.path[1]][obj.path[2]][obj.path[3]] = @ \o items]

\* the dict _get_reflection_state_coords returns: a comprehension builds it
CoordsObject(state_id) == NewObject

\* the dict _interpolate_reflection_states returns: a comprehension builds it
InterpolatedObject(state_a, state_b) == NewObject

\* best_data of _find_nearest_reflection_visual_type: the entry of the
\* table, not a copy
NearestDataObject(nearest_name) ==
    TableObject(<<"REFLECTION_VISUAL_TYPES", nearest_name>>)

\* prompt_parts bound to the keyword list itself
PromptPartsAliased(keywords) == keywords

\* prompt_parts = []: a list of its own
PromptPartsObject(keywords) == NewObject

\* the writes of the loop of generate_rhythmic_reflection_sequence: every
\* pass assigns the three tags to the dict the interpolation returned, so
\* what the last pass assigned is what stays
TagWrites(tbls, state, sequence) ==
    IF sequence = <<>> THEN tbls
    ELSE Let([last \in {sequence[Len(sequence)]} |->
             SetItem(SetItem(SetItem(tbls, state, "_step", last["_step"]),
                             state, "_alpha", last["_alpha"]),
                     state, "_phase", last["_phase"])])

\* the tables after generate_rhythmic_reflection_sequence returned res; the
\* result is looked at only when the dict the tags go to is part of a table
TablesAfterSequence(tbls, state_a_id, state_b_id, res) ==
    Let([state \in {InterpolatedObject(CoordsObject(state_a_id),
                                       CoordsObject(state_b_id))} |->
        IF state.in = "call" THEN tbls
        ELSE IF res.kind = "return" /\ "sequence" \in DOMAIN res.payload
        THEN TagWrites(tbls, state, res.payload["sequence"])
        ELSE tbls])

\* the tables after apply_reflection_rhythmic_preset returned res
TablesAfterPreset(tbls, preset_name, res) ==
    IF preset_name \in DOMAIN REFLECTION_RHYTHMIC_PRESETS
    THEN TablesAfterSequence(tbls, REFLECTION_RHYTHMIC_PRESETS[preset_name]["state_a"],
                             REFLECTION_RHYTHMIC_PRESETS[preset_name]["state_b"], res)
    ELSE tbls

\* the writes to prompt_parts for one nearest type: the style, the keywords
\* of the type, its first two colours
PromptWrites(tbls, nearest_name, style_modifier) ==
    Let([nearest_data \in {NearestDataObject(nearest_name)} |->
    Let([keywords \in {ItemObject(nearest_data, "keywords")} |->
    Let([colors \in {ItemObject(nearest_data, "color_associations")} |->
    Let([prompt_parts \in {PromptPartsObject(keywords)} |->
    Let([styled \in {IF style_modifier # ""
                     THEN Extend(tbls, prompt_parts, <<style_modifier>>)
                     ELSE tbls} |->
    Let([worded \in {Extend(styled, prompt_parts, ListAt(styled, keywords))} |->
        Extend(worded, prompt_parts, Slice(ListAt(worded, colors), 0, 2))])])])])])])

\* the writes of the keyframe loop from keyframe i on
RECURSIVE KeyframeWrites(_, _, _, _)
KeyframeWrites(tbls, keyframes, style_modifier, i) ==
    IF i > Len(keyframes) THEN tbls
    ELSE KeyframeWrites(PromptWrites(tbls, keyframes[i]["nearest_type"], style_modifier),
                        keyframes, style_modifier, i + 1)

\* the tables after generate_reflection_attractor_prompt returned res
TablesAfterAttractor(tbls, style_modifier, res) ==
    IF res.kind # "return" THEN tbls
    ELSE IF "vocabulary" \in DOMAIN res.payload
    THEN PromptWrites(tbls, res.payload["vocabulary"]["nearest_type"], style_modifier)
    ELSE IF "keyframes" \in DOMAIN res.payload
    THEN KeyframeWrites(tbls, res.payload["keyframes"], style_modifier, 1)
    ELSE tbls

(***************************************************************************)
(* The state machine.  call is the invocation in progress with its         *)
(* arguments, result is what it produced, tables are the module-level      *)
(* dicts as the calls so far have left them.                               *)
(***************************************************************************)
VARIABLES call, result, tables

vars == <<call, result, tables>>

Idle == [op |-> "idle"]

Init ==
    /\ call = Idle
    /\ result = PyNone
    /\ tables = ConstantTables

\* the caller takes the result; the server is ready for the next call
Finish ==
    /\ call.op # "idle"
    /\ call' = Idle
    /\ result' = PyNone
    /\ UNCHANGED tables

(***************************************************************************)
(* Bounds of the explored inputs.                                          *)
(***************************************************************************)
MaxSteps         == 6
MaxCycles        == 2
MaxDen           == 5
MaxGrid          == 2
MaxStepsPerCycle == 3
MaxScenarios     == 2
MaxKeyframes     == 3
MaxWholeCycles   == 3
MaxFragments     == 2

\* cycle counts k/2 with |k/2| <= MaxCycles: whole and fractional, of
\* either sign
CycleCounts == {FDiv(FInt(k), FInt(2)) : k \in (-2 * MaxCycles)..(2 * MaxCycles)}

\* the three waveform kinds and a name that is none of them
Patterns == {"sinusoidal", "triangular", "square", "sawtooth"}

\* the blend factors k/d of [0, 1] with d <= MaxDen
Alphas ==
    {FDiv(FInt(x[1]), FInt(x[2])) :
        x \in {y \in (0..MaxDen) \X (1..MaxDen) : y[1] <= y[2]}}

\* the calls of the sequence tool and of the presets: a whole number of
\* cycles of a whole number of steps each, for the two piecewise waveforms
WholeCycleCalls ==
    {<<c * n, FInt(c), w>> :
        c \in 1..MaxWholeCycles, n \in 1..MaxStepsPerCycle,
        w \in {"triangular", "square"}}

\* the argument lists tried: every step count with every cycle count and
\* waveform kind, and the whole-cycle calls
OscillationCalls ==
    {<<n, c, w>> : n \in 1..MaxSteps, c \in CycleCounts, w \in Patterns}
    \cup WholeCycleCalls

\* _generate_reflection_oscillation applied to a step count, a cycle count
\* and a waveform kind
CallGenerateOscillation ==
    /\ call.op = "idle"
    /\ \E args \in OscillationCalls :
          /\ call' = [op |-> "_generate_reflection_oscillation",
                      num_steps |-> args[1], num_cycles |-> args[2],
                      pattern |-> args[3]]
          /\ result' = _generate_reflection_oscillation(args[1], args[2], args[3])
    /\ UNCHANGED tables

NextOsc == CallGenerateOscillation \/ Finish

SpecOsc == Init /\ [][NextOsc]_vars

\* _interpolate_reflection_states applied to two canonical states and a
\* blend factor
CallInterpolate ==
    /\ call.op = "idle"
    /\ \E a \in DOMAIN REFLECTION_CANONICAL_STATES,
          b \in DOMAIN REFLECTION_CANONICAL_STATES, alpha \in Alphas :
          /\ call' = [op |-> "_interpolate_reflection_states",
                      state_a |-> _get_reflection_state_coords(a),
                      state_b |-> _get_reflection_state_coords(b),
                      alpha |-> alpha]
          /\ result' = _interpolate_reflection_states(
                           _get_reflection_state_coords(a),
                           _get_reflection_state_coords(b), alpha)
    /\ UNCHANGED tables

NextInterp == CallInterpolate \/ Finish

SpecInterp == Init /\ [][NextInterp]_vars

\* the values tried on each dimension (PyNone: the dimension is absent);
\* among the vectors are some at exactly the same distance from two types
GridValues == {FDiv(FInt(2 * k), FInt(10)) : k \in 0..MaxGrid}

GridVectors ==
    {LET v == "reflection_clarity" :> c @@ "surface_roughness" :> r
              @@ "metallic_character" :> m @@ "geometric_distortion" :> g
              @@ "environmental_drama" :> d
     IN  [p \in {q \in DOMAIN v : v[q] # PyNone} |-> v[p]] :
        c \in {PyNone, FZero, FOne}, r \in {PyNone, FDec(6, 10)},
        m \in {PyNone, FZero}, g \in GridValues, d \in GridValues}

\* the reference vector of every visual type, the coordinates of every
\* canonical state, and the grid vectors
NearestInputs ==
    {REFLECTION_VISUAL_TYPES[t]["coords"] : t \in DOMAIN REFLECTION_VISUAL_TYPES}
    \cup {_get_reflection_state_coords(c) : c \in DOMAIN REFLECTION_CANONICAL_STATES}
    \cup GridVectors

\* _find_nearest_reflection_visual_type applied to a parameter vector
CallFindNearest ==
    /\ call.op = "idle"
    /\ \E v \in NearestInputs :
          /\ call' = [op |-> "_find_nearest_reflection_visual_type", state |-> v]
          /\ result' = _find_nearest_reflection_visual_type(v)
    /\ UNCHANGED tables

NextNearest == CallFindNearest \/ Finish

SpecNearest == Init /\ [][NextNearest]_vars

(***************************************************************************)
(* The tools, called with known and unknown names and with well-formed     *)
(* and malformed documents.                                                *)
(***************************************************************************)
\* valid ids and an unknown one for each end of the oscillation
StateAArgs == {"mirror_still", "quicksilver"}
StateBArgs == {"frosted_pane", "wet_street", "obsidian"}

\* cycle counts passed as an int, and as a float (whole or fractional)
CycleArgs ==
    {PyInt(c) : c \in 1..MaxCycles}
    \cup {PyFloat(FDiv(FInt(k), FInt(2))) : k \in 1..(2 * MaxCycles)}

\* no offset, a negative one, half a cycle, more than a cycle
PhaseOffsets == {FZero, FDec(-25, 100), FHalf, FDec(125, 100)}

\* the argument lists tried: every pair of ids with one waveform, and one
\* valid pair of states with every waveform kind, cycle count and step
\* count, unshifted and shifted by half a cycle, the sine with every phase
\* offset
SequenceCalls ==
    {<<a, b, "sinusoidal", PyInt(1), n, FZero>> :
        a \in StateAArgs, b \in StateBArgs, n \in 1..MaxStepsPerCycle}
    \cup {<<"mirror_still", "frosted_pane", w, c, n, off>> :
        w \in Patterns, c \in CycleArgs, n \in 1..MaxStepsPerCycle,
        off \in {FZero, FHalf}}
    \cup {<<"mirror_still", "frosted_pane", "sinusoidal", c, n, off>> :
        c \in CycleArgs, n \in 1..MaxStepsPerCycle, off \in PhaseOffsets}

CallGenerateRhythmicSequence ==
    /\ call.op = "idle"
    /\ \E args \in SequenceCalls :
          /\ call' = [op |-> "generate_rhythmic_reflection_sequence",
                      state_a_id |-> args[1], state_b_id |-> args[2],
                      oscillation_pattern |-> args[3], num_cycles |-> args[4],
                      steps_per_cycle |-> args[5], phase_offset |-> args[6]]
          /\ result' = generate_rhythmic_reflection_sequence(
                           args[1], args[2], args[3], args[4], args[5], args[6])
    /\ tables' = TablesAfterSequence(tables, call'.state_a_id, call'.state_b_id, result')

NextSeq == CallGenerateRhythmicSequence \/ Finish

SpecSeq == Init /\ [][NextSeq]_vars

CallApplyRhythmicPreset ==
    /\ call.op = "idle"
    /\ \E name \in DOMAIN REFLECTION_RHYTHMIC_PRESETS \cup {"no_such_preset"} :
          /\ call' = [op |-> "apply_reflection_rhythmic_preset",
                      preset_name |-> name]
          /\ result' = apply_reflection_rhythmic_preset(name)
    /\ tables' = TablesAfterPreset(tables, call'.preset_name, result')

MaterialArgs == DOMAIN SURFACE_MATERIALS \cup {"unobtainium"}

\* viewing angles: the normal, grazing incidence, angles between, and
\* angles outside 0..90 (no range check is applied to the argument)
Angles == {FInt(a) : a \in {-30, 0, 45, 82, 88, 90, 120}}

CallMapMaterialProperties ==
    /\ call.op = "idle"
    /\ \E m \in MaterialArgs :
          /\ call' = [op |-> "map_material_properties", material_id |-> m]
          /\ result' = map_material_properties(m)
    /\ UNCHANGED tables

CallComputeFresnelIntensity ==
    /\ call.op = "idle"
    /\ \E angle \in Angles, m \in MaterialArgs :
          /\ call' = [op |-> "compute_fresnel_intensity",
                      viewing_angle_degrees |-> angle, material_id |-> m]
          /\ result' = compute_fresnel_intensity(angle, m)
    /\ UNCHANGED tables

\* the argument lists tried: known and unknown names at every angle, and
\* every material of the table in one context
AnalysisCalls ==
    {<<m, g, e, angle>> :
        m \in {"mirror_glass", "frosted_glass", "unobtainium"},
        g \in {"flat", "faceted", "moebius"},
        e \in {"golden_hour", "overcast", "underwater"}, angle \in Angles}
    \cup {<<m, "flat", "overcast", FInt(45)>> : m \in DOMAIN SURFACE_MATERIALS}

CallAnalyzeReflectionContext ==
    /\ call.op = "idle"
    /\ \E args \in AnalysisCalls :
          /\ call' = [op |-> "analyze_reflection_context",
                      material_id |-> args[1], geometry |-> args[2],
                      environment |-> args[3],
                      viewing_angle_degrees |-> args[4]]
          /\ result' = analyze_reflection_context(
                           args[1], args[2], args[3], args[4])
    /\ UNCHANGED tables

\* entries of a scenario array: three valid scenarios, the empty object
\* (all defaults), an unknown material, an unknown geometry, and a number
ScenarioEntries ==
    {JObj("label" :> JStr("Dawn mirror") @@ "material_id" :> JStr("mirror_glass")
          @@ "geometry" :> JStr("flat") @@ "environment" :> JStr("golden_hour")
          @@ "viewing_angle" :> JNum(FInt(30))),
     JObj("label" :> JStr("Grazing mirror") @@ "material_id" :> JStr("mirror_glass")
          @@ "viewing_angle" :> JNum(FInt(90))),
     JObj("material_id" :> JStr("frosted_glass") @@ "geometry" :> JStr("faceted")
          @@ "environment" :> JStr("overcast")),
     JObj(<<>>),
     JObj("material_id" :> JStr("unobtainium")),
     JObj("geometry" :> JStr("moebius")),
     JNum(FInt(5))}

ScenarioTexts ==
    {NotJson, JsonText(JNull), JsonText(JStr("flat")), JsonText(JObj(<<>>))}
    \cup {JsonText(JArr(xs)) :
             xs \in UNION {[1..k -> ScenarioEntries] : k \in 0..MaxScenarios}}

CallCompareReflectionScenarios ==
    /\ call.op = "idle"
    /\ \E text \in ScenarioTexts :
          /\ call' = [op |-> "compare_reflection_scenarios", scenarios |-> text]
          /\ result' = compare_reflection_scenarios(text)
    /\ UNCHANGED tables

\* documents passed as a state: text that is no JSON; null, a number, a
\* string, an array; objects with all, some or none of the dimensions; an
\* object with a dimension that is no number
StateTexts ==
    {NotJson, JsonText(JNull), JsonText(JNum(FInt(3))),
     JsonText(JStr("mirror_still")),
     JsonText(JArr(<<JNum(FOne), JNum(FZero)>>)),
     JsonText(JObj(<<>>)),
     JsonText(JObj("reflection_clarity" :> JStr("high"))),
     JsonText(JObj("surface_roughness" :> JNum(FDec(6, 10))
                   @@ "geometric_distortion" :> JNum(FZero)
                   @@ "environmental_drama" :> JNum(FDec(4, 10)))),
     JsonText(JObj("metallic_character" :> JNum(FDec(9, 10))
                   @@ "label" :> JStr("warm")))}
    \cup {JsonText(JObj([p \in Elems(REFLECTION_PARAMETER_NAMES) |->
                            JNum(REFLECTION_CANONICAL_STATES[c][p])])) :
             c \in {"chrome_curve", "rippled_pool"}}

CallExtractVisualVocabulary ==
    /\ call.op = "idle"
    /\ \E text \in StateTexts :
          /\ call' = [op |-> "extract_reflection_visual_vocabulary",
                      state |-> text]
          /\ result' = extract_reflection_visual_vocabulary(text)
    /\ UNCHANGED tables

PresetArgs ==
    {PyNone, PyStr(""), PyStr("clarity_sweep"), PyStr("distortion_wave"),
     PyStr("no_such_preset")}

\* an attractor state: none, text that is no JSON, an array, an object
\* with a dimension that is no number, a partial and a complete vector
AttractorTexts ==
    {PyNone, NotJson, JsonText(JArr(<<JNum(FOne), JNum(FZero)>>)),
     JsonText(JObj("reflection_clarity" :> JStr("high"))),
     JsonText(JObj("metallic_character" :> JNum(FDec(9, 10))
                   @@ "label" :> JStr("warm"))),
     JsonText(JObj([p \in Elems(REFLECTION_PARAMETER_NAMES) |->
                       JNum(REFLECTION_CANONICAL_STATES["rippled_pool"][p])]))}

\* the default of keyframe_count
DefaultKeyframes == 4

\* the argument lists tried: composite mode with every state text and
\* preset name (keyframe_count is not read there), sequence mode with
\* every preset name and keyframe count (attractor_state is not read
\* there), a mode that is neither, and every preset of the table in both
\* modes
AttractorCalls ==
    {<<text, name, "composite", style, DefaultKeyframes>> :
        text \in AttractorTexts, name \in PresetArgs, style \in {"", "cinematic"}}
    \cup {<<PyNone, name, "sequence", style, count>> :
        name \in PresetArgs, style \in {"", "cinematic"}, count \in 0..MaxKeyframes}
    \cup {<<text, name, "morph", "", DefaultKeyframes>> :
        text \in {PyNone, NotJson}, name \in PresetArgs}
    \cup {<<PyNone, PyStr(name), mode, "", MaxKeyframes>> :
        name \in DOMAIN REFLECTION_RHYTHMIC_PRESETS,
        mode \in {"composite", "sequence"}}

CallGenerateAttractorPrompt ==
    /\ call.op = "idle"
    /\ \E args \in AttractorCalls :
          /\ call' = [op |-> "generate_reflection_attractor_prompt",
                      attractor_state |-> args[1], preset_name |-> args[2],
                      mode |-> args[3], style_modifier |-> args[4],
                      keyframe_count |-> args[5]]
          /\ result' = generate_reflection_attractor_prompt(
                           args[1], args[2], args[3], args[4], args[5])
    /\ tables' = TablesAfterAttractor(tables, call'.style_modifier, result')

\* the values of reflection_prominence tried: none, the default, all
Prominences == {FZero, FDec(7, 10), FOne}

\* the argument lists tried: every analysis at every prominence without a
\* style, and every material in one context with one
EnhancementCalls ==
    {<<args, p, "">> : args \in AnalysisCalls, p \in Prominences}
    \cup {<<<<m, "flat", "overcast", FInt(45)>>, FDec(7, 10), "cinematic">> :
             m \in DOMAIN SURFACE_MATERIALS}

CallGeneratePromptEnhancement ==
    /\ call.op = "idle"
    /\ \E c \in EnhancementCalls :
          /\ call' = [op |-> "generate_reflection_prompt_enhancement",
                      base_prompt |-> "a quiet lobby",
                      material_id |-> c[1][1], geometry |-> c[1][2],
                      environment |-> c[1][3], viewing_angle |-> c[1][4],
                      reflection_prominence |-> c[2], style_modifier |-> c[3]]
          /\ result' = generate_reflection_prompt_enhancement(
                           "a quiet lobby", c[1][1], c[1][2], c[1][3], c[1][4],
                           c[2], c[3])
    /\ UNCHANGED tables

\* pieces of prompts: identifiers with spaces and with underscores, names
\* in capitals, keywords of each table, and words the suggestions look for
Fragments ==
    {"polished chrome", "Mirror Glass", "mirror_glass", "lake reflection",
     "specular highlights", "Soft Glow", "a convex dome", "fisheye effect",
     "golden hour", "night_urban", "fresnel effect", "rainbow edges",
     "wet metal", "flat water"}

\* the fragments of a list joined by ", "
RECURSIVE JoinFrom(_, _)
JoinFrom(parts, i) ==
    IF i > Len(parts) THEN ""
    ELSE IF i = Len(parts) THEN parts[i]
    ELSE parts[i] \o ", " \o JoinFrom(parts, i + 1)

\* the prompts tried: the empty one and those of up to MaxFragments pieces
Prompts ==
    {JoinFrom(parts, 1) :
        parts \in UNION {[1..k -> Fragments] : k \in 0..MaxFragments}}

CallDetectReflectionKeywords ==
    /\ call.op = "idle"
    /\ \E prompt \in Prompts :
          /\ call' = [op |-> "detect_reflection_keywords", prompt |-> prompt]
          /\ result' \in detect_reflection_keywords(prompt)
    /\ UNCHANGED tables

Next ==
    \/ CallMapMaterialProperties
    \/ CallComputeFresnelIntensity
    \/ CallAnalyzeReflectionContext
    \/ CallCompareReflectionScenarios
    \/ CallDetectReflectionKeywords
    \/ CallGeneratePromptEnhancement
    \/ CallGenerateRhythmicSequence
    \/ CallApplyRhythmicPreset
    \/ CallExtractVisualVocabulary
    \/ CallGenerateAttractorPrompt
    \/ Finish

Spec == Init /\ [][Next]_vars

\* the Layer 2 tools alone
NextLayer2 ==
    \/ CallMapMaterialProperties
    \/ CallComputeFresnelIntensity
    \/ CallAnalyzeReflectionContext
    \/ CallCompareReflectionScenarios
    \/ Finish

SpecLayer2 == Init /\ [][NextLayer2]_vars

\* the two rhythmic tools alone
NextRhythm ==
    \/ CallApplyRhythmicPreset
    \/ CallGenerateRhythmicSequence
    \/ Finish

SpecRhythm == Init /\ [][NextRhythm]_vars

\* the tools that follow a reference from one table into another
NextNames ==
    \/ CallMapMaterialProperties
    \/ CallAnalyzeReflectionContext
    \/ CallApplyRhythmicPreset
    \/ CallGenerateAttractorPrompt
    \/ Finish

SpecNames == Init /\ [][NextNames]_vars

\* the tools that return parameter vectors
NextVectors ==
    \/ CallGenerateRhythmicSequence
    \/ CallApplyRhythmicPreset
    \/ CallGenerateAttractorPrompt
    \/ Finish

SpecVectors == Init /\ [][NextVectors]_vars

\* the prompt enhancement alone
NextEnhance == CallGeneratePromptEnhancement \/ Finish

SpecEnhance == Init /\ [][NextEnhance]_vars

\* the keyword scan alone
NextDetect == CallDetectReflectionKeywords \/ Finish

SpecDetect == Init /\ [][NextDetect]_vars

\* the attractor prompt generator alone
NextAttractor == CallGenerateAttractorPrompt \/ Finish

SpecAttractor == Init /\ [][NextAttractor]_vars

(***************************************************************************)
(* Properties of the oscillation and of the interpolation.                 *)
(***************************************************************************)
\* lo <= x <= hi
FBetween(x, lo, hi) == FLe(lo, x) /\ FLe(x, hi)

\* |x|
FAbs(x) == [x EXCEPT !.s = 0]

\* 2^-52, the spacing of the floats just above 1
FEps == [s |-> 0, m |-> <<0, 0, 0, 128>>, e |-> -104]

\* C4: for every step count, cycle count and step index the blend factor
\* of _generate_reflection_oscillation lies in [0, 1] (sinusoidal,
\* triangular, and the sinusoidal fallback of an unknown kind), and is
\* exactly 0 or exactly 1 for the square waveform.
C4_BlendFactorsInUnitInterval ==
    call.op = "_generate_reflection_oscillation" =>
        \A k \in DOMAIN result :
            /\ FBetween(result[k], FZero, FOne)
            /\ call.pattern = "square" => result[k] \in {FZero, FOne}

\* a square wave that took both of its values, over more than one cycle
C4_Witness ==
    /\ call.op = "_generate_reflection_oscillation"
    /\ call.pattern = "square"
    /\ call.num_cycles = FDiv(FInt(3), FInt(2))
    /\ Len(result) = MaxSteps
    /\ {FZero, FOne} \subseteq Elems(result)

TypeIndex(t) ==
    CHOOSE i \in DOMAIN REFLECTION_VISUAL_TYPES_KEYS :
        REFLECTION_VISUAL_TYPES_KEYS[i] = t

\* the exact sum of the squared differences of two complete vectors, in
\* units of 2^-(2 FixBits)
RECURSIVE SquaredDistanceFrom(_, _, _)
SquaredDistanceFrom(x, t, i) ==
    IF i > Len(REFLECTION_PARAMETER_NAMES) THEN <<>>
    ELSE LET p  == REFLECTION_PARAMETER_NAMES[i]
             a  == ToFix(x[p])
             b  == ToFix(t[p])
             df == IF BCmp(a, b) >= 0 THEN BSub(a, b) ELSE BSub(b, a)
         IN  BAdd(BMul(df, df), SquaredDistanceFrom(x, t, i + 1))

\* d is the Euclidean distance of x and t up to the rounding of the float
\* arithmetic: | d^2 - |x - t|^2 | <= 2^-49 |x - t|^2
IsEuclideanDistance(d, x, t) ==
    LET sq == SquaredDistanceFrom(x, t, 1)
        dd == BMul(ToFix(d), ToFix(d))
        er == IF BCmp(dd, sq) >= 0 THEN BSub(dd, sq) ELSE BSub(sq, dd)
    IN  BCmp(BShl(er, 49), sq) <= 0

\* C6: for every well-formed vector (any subset of the five dimensions,
\* an absent one taken as 0.5) _find_nearest_reflection_visual_type returns
\* a type of the six-entry table whose distance is at most that of every
\* other type, with exactly that distance (the Euclidean one) and that
\* type's keyword, optical-property and colour data unchanged.
C6_NearestIsMinimal ==
    call.op = "_find_nearest_reflection_visual_type" =>
        LET x == Completed(call.state)
        IN  /\ result[1] \in DOMAIN REFLECTION_VISUAL_TYPES
            /\ Cardinality(DOMAIN REFLECTION_VISUAL_TYPES) = 6
            /\ result[3] = REFLECTION_VISUAL_TYPES[result[1]]
            /\ IsEuclideanDistance(result[2], x,
                                   REFLECTION_VISUAL_TYPES[result[1]]["coords"])
            /\ \A t \in DOMAIN REFLECTION_VISUAL_TYPES :
                  LET d == _reflection_param_distance(
                               x, REFLECTION_VISUAL_TYPES[t]["coords"])
                  IN  /\ FLe(result[2], d)
                      /\ t = result[1] => result[2] = d

\* a vector with absent dimensions, not a reference vector, whose nearest
\* type is not the first of the table
C6_Witness ==
    /\ call.op = "_find_nearest_reflection_visual_type"
    /\ DOMAIN call.state = {"surface_roughness", "geometric_distortion",
                            "environmental_drama"}
    /\ result[1] = "frost_diffuse"
    /\ FLt(FZero, result[2])

\* C7: the reference vector of each of the six types maps to that type
\* with distance 0; the six reference vectors are pairwise distinct.
C7_ReferenceVectorMapsToItself ==
    /\ \A t, u \in DOMAIN REFLECTION_VISUAL_TYPES :
          t # u => REFLECTION_VISUAL_TYPES[t]["coords"] #
                   REFLECTION_VISUAL_TYPES[u]["coords"]
    /\ call.op = "_find_nearest_reflection_visual_type" =>
          \A t \in DOMAIN REFLECTION_VISUAL_TYPES :
              call.state = REFLECTION_VISUAL_TYPES[t]["coords"] =>
                  /\ result[1] = t
                  /\ result[2] = FZero
                  /\ result[3] = REFLECTION_VISUAL_TYPES[t]

\* the reference vector of the last type of the table was mapped
C7_Witness ==
    /\ call.op = "_find_nearest_reflection_visual_type"
    /\ call.state = REFLECTION_VISUAL_TYPES["faceted_prism"]["coords"]
    /\ result[1] = "faceted_prism"

\* C8: when several types are at exactly the minimum distance the one that
\* comes first in the declaration order of the table is returned (a later
\* type replaces the best only when strictly nearer); the order is
\* perfect_mirror, metallic_gleam, rain_noir, caustic_dance, frost_diffuse,
\* faceted_prism.
C8_FirstDeclaredWinsTies ==
    /\ REFLECTION_VISUAL_TYPES_KEYS =
          <<"perfect_mirror", "metallic_gleam", "rain_noir", "caustic_dance",
            "frost_diffuse", "faceted_prism">>
    /\ call.op = "_find_nearest_reflection_visual_type" =>
          \A t \in DOMAIN REFLECTION_VISUAL_TYPES :
              _reflection_param_distance(
                  call.state, REFLECTION_VISUAL_TYPES[t]["coords"]) = result[2]
                  => TypeIndex(result[1]) <= TypeIndex(t)

\* a vector at exactly the same minimum distance from two types
C8_Witness ==
    /\ call.op = "_find_nearest_reflection_visual_type"
    /\ \E t \in DOMAIN REFLECTION_VISUAL_TYPES :
          /\ t # result[1]
          /\ _reflection_param_distance(
                 call.state, REFLECTION_VISUAL_TYPES[t]["coords"]) = result[2]

(***************************************************************************)
(* Properties of the rhythmic sequence.                                    *)
(***************************************************************************)
\* both state ids of a sequence call are keys of the canonical-state table
ValidStates ==
    {call.state_a_id, call.state_b_id} \subseteq DOMAIN REFLECTION_CANONICAL_STATES

\* C2: generate_rhythmic_reflection_sequence called with a state_a_id or a
\* state_b_id that is no key of the canonical-state table returns a payload
\* whose error names the unknown id (state_a_id when both are unknown),
\* whose available lists every canonical state name, and which has no
\* sequence field.
C2_UnknownStateReported ==
    (call.op = "generate_rhythmic_reflection_sequence" /\ ~ValidStates) =>
        LET unknown == IF call.state_a_id \notin DOMAIN REFLECTION_CANONICAL_STATES
                       THEN call.state_a_id ELSE call.state_b_id
        IN  /\ result.kind = "return"
            /\ "error" \in DOMAIN result.payload
            /\ result.payload["error"] = "Unknown state: " \o unknown
            /\ "available" \in DOMAIN result.payload
            /\ Elems(result.payload["available"]) = DOMAIN REFLECTION_CANONICAL_STATES
            /\ "sequence" \notin DOMAIN result.payload

\* both ids unknown: the error names state_a_id
C2_Witness ==
    /\ call.op = "generate_rhythmic_reflection_sequence"
    /\ call.state_a_id \notin DOMAIN REFLECTION_CANONICAL_STATES
    /\ call.state_b_id \notin DOMAIN REFLECTION_CANONICAL_STATES
    /\ result.kind = "return"
    /\ result.payload["error"] = "Unknown state: " \o call.state_a_id

\* the _step values of a sequence are 0, 1, ... in order
StepsInOrder(sequence) ==
    \A k \in DOMAIN sequence : sequence[k]["_step"] = k - 1

IsErrorPayload(r) ==
    /\ r.kind = "return"
    /\ "error" \in DOMAIN r.payload

\* C1: for every tool and every argument value (unknown identifiers,
\* documents that are valid JSON but not of the expected shape, a scenario
\* entry that names an unknown material, geometry or environment or is no
\* object, sequence mode with keyframe_count = 1) the call returns a
\* payload and never raises an exception to the caller.
C1_NeverRaises ==
    call.op # "idle" => result.kind = "return"

\* a state text is decodable as a set of named numeric fields: it is JSON,
\* an object, and its value for every dimension it names is a number
Decodable(text) ==
    /\ text.wf
    /\ text.value.j = "object"
    /\ \A p \in Elems(REFLECTION_PARAMETER_NAMES) \cap DOMAIN text.value.fields :
          text.value.fields[p].j = "number"

\* C9: extract_reflection_visual_vocabulary given an input that is not
\* decodable as a set of named numeric fields (text that is no JSON, a JSON
\* array, number, string or null, an object with a non-numeric value for a
\* dimension) returns an invalid-input error payload, before any distance
\* is computed.
C9_UndecodableStateRejected ==
    (call.op = "extract_reflection_visual_vocabulary" /\ ~Decodable(call.state))
        => IsErrorPayload(result)

\* the call in progress names a material, geometry, environment, state or
\* preset that is no key of its table (for the attractor prompt: a preset
\* name in sequence mode, or in composite mode without an attractor state)
NamesUnknownEntry ==
    \/ /\ call.op \in {"map_material_properties", "compute_fresnel_intensity"}
       /\ call.material_id \notin DOMAIN SURFACE_MATERIALS
    \/ /\ call.op = "analyze_reflection_context"
       /\ \/ call.material_id \notin DOMAIN SURFACE_MATERIALS
          \/ call.geometry \notin DOMAIN GEOMETRY_FACTORS
          \/ call.environment \notin DOMAIN ENVIRONMENTAL_CONTEXTS
    \/ /\ call.op = "generate_rhythmic_reflection_sequence"
       /\ ~ValidStates
    \/ /\ call.op = "apply_reflection_rhythmic_preset"
       /\ call.preset_name \notin DOMAIN REFLECTION_RHYTHMIC_PRESETS
    \/ /\ call.op = "generate_reflection_attractor_prompt"
       /\ call.preset_name.py = "str"
       /\ call.preset_name.v \notin DOMAIN REFLECTION_RHYTHMIC_PRESETS \cup {""}
       /\ \/ call.mode = "sequence"
          \/ call.mode = "composite" /\ call.attractor_state = PyNone

\* C10: every tool that takes a material, geometry, environment, state or
\* preset name returns an error payload when the name is no key of the
\* corresponding table, compute_fresnel_intensity with an unknown
\* material_id and the composite mode of generate_reflection_attractor_prompt
\* with an unknown preset_name and no attractor_state included: no tool
\* substitutes a default entry for an unknown name.
C10_UnknownNameRejected ==
    NamesUnknownEntry => IsErrorPayload(result)

(***************************************************************************)
(* Properties of the Fresnel intensity and of the visibility score.        *)
(***************************************************************************)
\* ((ior - 1) / (ior + 1))^2 of a material of the table
F0(m) ==
    LET ior == SURFACE_MATERIALS[m]["ior"]
    IN  FPow(FDiv(FSub(ior, FOne), FAdd(ior, FOne)), 2)

\* the band of a value cut at three thresholds, a value equal to a
\* threshold falling in the lower band
BandOf(x, high, mid, low) ==
    IF FLt(high, x) THEN "dominant"
    ELSE IF FLt(mid, x) THEN "prominent"
    ELSE IF FLt(low, x) THEN "subtle"
    ELSE "minimal"

\* C11: for every material m of the table the unrounded Fresnel intensity
\* at 0 degrees equals F0(m) = ((ior - 1)/(ior + 1))^2 exactly and is
\* strictly less than the intensity at 90 degrees; a call at 0 degrees
\* reports F0(m), rounded, as its intensity.
C11_NormalIncidenceIsF0 ==
    (call.op = "compute_fresnel_intensity"
        /\ call.material_id \in DOMAIN SURFACE_MATERIALS) =>
        LET at0  == FresnelTerms(FInt(0), call.material_id).fresnel_intensity
            at90 == FresnelTerms(FInt(90), call.material_id).fresnel_intensity
        IN  /\ at0 = F0(call.material_id)
            /\ FLt(at0, at90)
            /\ call.viewing_angle_degrees = FInt(0) =>
                  /\ result.payload["fresnel_intensity"] =
                        FRoundDec(F0(call.material_id), 1000)
                  /\ result.payload["fresnel_intensity"] =
                        result.payload["optical_parameters"]["f0_base_reflectance"]
            /\ call.viewing_angle_degrees = FInt(90) =>
                  FLt(FRoundDec(F0(call.material_id), 1000),
                      result.payload["fresnel_intensity"])

\* gold (an index of refraction below 1) seen along the normal
C11_Witness ==
    /\ call.op = "compute_fresnel_intensity"
    /\ call.material_id = "gold"
    /\ call.viewing_angle_degrees = FInt(0)
    /\ result.payload["fresnel_intensity"] = FRoundDec(F0("gold"), 1000)
    /\ FLt(FZero, result.payload["fresnel_intensity"])

\* C12: compute_fresnel_intensity assigns exactly one of four bands from
\* the unrounded intensity F: dominant if F > 0.8, otherwise prominent if
\* F > 0.5, otherwise subtle if F > 0.2, otherwise minimal, a value equal
\* to a threshold falling in the lower band; for mirror_glass at 0 degrees
\* the reported intensity is 0.043 and the band is minimal.
C12_FresnelBands ==
    /\ FresnelBand(FDec(8, 10))[1] = "prominent"
    /\ FresnelBand(FDec(5, 10))[1] = "subtle"
    /\ FresnelBand(FDec(2, 10))[1] = "minimal"
    /\ call.op = "compute_fresnel_intensity" =>
          LET F == FresnelTerms(call.viewing_angle_degrees,
                                call.material_id).fresnel_intensity
          IN  /\ result.payload["prominence"] =
                    BandOf(F, FDec(8, 10), FDec(5, 10), FDec(2, 10))
              /\ result.payload["fresnel_intensity"] = FRoundDec(F, 1000)
              /\ (call.material_id = "mirror_glass"
                    /\ call.viewing_angle_degrees = FInt(0)) =>
                    /\ result.payload["fresnel_intensity"] = FDec(43, 1000)
                    /\ result.payload["prominence"] = "minimal"

\* mirror glass at 82 degrees: an intensity between the thresholds 0.2 and
\* 0.5, in the band subtle
C12_Witness ==
    /\ call.op = "compute_fresnel_intensity"
    /\ call.material_id = "mirror_glass"
    /\ call.viewing_angle_degrees = FInt(82)
    /\ result.payload["fresnel_intensity"] = FDec(495, 1000)
    /\ result.payload["prominence"] = "subtle"

\* C13: for every viewing angle, the angles below 0 and above 90 degrees
\* included, and every material the fresnel_intensity returned by
\* compute_fresnel_intensity lies in [0, 1].
C13_IntensityInUnitInterval ==
    call.op = "compute_fresnel_intensity" =>
        FBetween(result.payload["fresnel_intensity"], FZero, FOne)

\* the names of an analysis call are keys of their tables
ValidContext ==
    /\ call.material_id \in DOMAIN SURFACE_MATERIALS
    /\ call.geometry \in DOMAIN GEOMETRY_FACTORS
    /\ call.environment \in DOMAIN ENVIRONMENTAL_CONTEXTS

TooFewScenarios ==
    \/ ~call.scenarios.wf
    \/ call.scenarios.value.j # "array"
    \/ Len(call.scenarios.value.items) < 2

\* C15: compare_reflection_scenarios returns an error payload and analyses
\* no scenario when its input is no valid JSON, when the decoded value is
\* no list, and when the list has fewer than two entries.
C15_TooFewScenariosRejected ==
    (call.op = "compare_reflection_scenarios" /\ TooFewScenarios) =>
        /\ IsErrorPayload(result)
        /\ DOMAIN result.payload = {"error"}

\* a list of exactly one scenario, a valid one, is rejected
C15_Witness ==
    /\ call.op = "compare_reflection_scenarios"
    /\ call.scenarios.wf
    /\ call.scenarios.value.j = "array"
    /\ Len(call.scenarios.value.items) = 1
    /\ call.scenarios.value.items[1].j = "object"
    /\ "material_id" \in DOMAIN call.scenarios.value.items[1].fields
    /\ IsErrorPayload(result)

\* the analysis of one entry of a scenario list, absent fields defaulted
ScenarioAnalysis(entry) ==
    analyze_reflection_context(
        Get(entry.fields, "material_id", JStr("mirror_glass")).str,
        Get(entry.fields, "geometry", JStr("flat")).str,
        Get(entry.fields, "environment", JStr("bright_daylight")).str,
        Get(entry.fields, "viewing_angle", JNum(FInt(45))).num).payload

\* an entry of a scenario list that is an object naming keys of the tables
ValidScenario(entry) ==
    /\ entry.j = "object"
    /\ "error" \notin DOMAIN ScenarioAnalysis(entry)

\* the note on the contrast of the visibilities
VisibilityNote ==
    "Significant visibility variation - creates strong compositional contrast"

\* C16: for every list of two or more valid scenarios
\* compare_reflection_scenarios reports visibility_span.min and .max as the
\* minimum and the maximum of the per-scenario effective visibilities,
\* delta = max - min >= 0 (to three decimals), lists the scenarios in input
\* order, and includes the visibility-contrast note iff delta > 0.4;
\* visibilities 0.8 and 0.3 give min 0.3, max 0.8 and delta 0.5.
C16_VisibilitySpan ==
    /\ Span(<<FDec(8, 10), FDec(3, 10)>>) =
          ("min" :> FDec(3, 10) @@ "max" :> FDec(8, 10) @@ "delta" :> FDec(5, 10))
    /\ (call.op = "compare_reflection_scenarios"
          /\ ~TooFewScenarios
          /\ \A k \in DOMAIN call.scenarios.value.items :
                ValidScenario(call.scenarios.value.items[k])) =>
          LET items    == call.scenarios.value.items
              vis      == [k \in DOMAIN items |->
                              ScenarioAnalysis(items[k])["reflection_parameters"]
                                                        ["effective_visibility"]]
              insights == result.payload["comparative_insights"]
              span     == insights["visibility_span"]
          IN  /\ result.kind = "return"
              /\ DOMAIN result.payload["scenarios"] = DOMAIN items
              /\ \A k \in DOMAIN items :
                    /\ result.payload["scenarios"][k]["label"] =
                          Get(items[k].fields, "label", JStr("Unlabeled")).str
                    /\ result.payload["scenarios"][k]["visibility"] = vis[k]
                    /\ FLe(span["min"], vis[k])
                    /\ FLe(vis[k], span["max"])
              /\ {span["min"], span["max"]} \subseteq Elems(vis)
              /\ span["delta"] = FRoundDec(FSub(span["max"], span["min"]), 1000)
              /\ FLe(FZero, span["delta"])
              /\ VisibilityNote \in Elems(insights["aesthetic_trade_offs"])
                    <=> FLt(FDec(4, 10), span["delta"])

\* two valid scenarios, the less visible one second, more than 0.4 apart:
\* the note is included
C16_Witness ==
    /\ call.op = "compare_reflection_scenarios"
    /\ ~TooFewScenarios
    /\ result.kind = "return"
    /\ "comparative_insights" \in DOMAIN result.payload
    /\ LET insights == result.payload["comparative_insights"]
       IN  /\ insights["visibility_span"]["min"] = insights["visibility_range"][2]
           /\ FLt(FDec(4, 10), insights["visibility_span"]["delta"])
           /\ VisibilityNote \in Elems(insights["aesthetic_trade_offs"])

(***************************************************************************)
(* Properties of the presets and of the phase offset.                      *)
(***************************************************************************)
\* C17: for every preset name p of the preset table
\* apply_reflection_rhythmic_preset(p) returns exactly the result of
\* generate_rhythmic_reflection_sequence called with p's stored state_a,
\* state_b, pattern, num_cycles and steps_per_cycle and phase offset 0, a
\* full sequence; for a name that is not in the table it returns an error
\* payload listing all preset names, and no sequence.
C17_PresetIsSequenceCall ==
    call.op = "apply_reflection_rhythmic_preset" =>
        IF call.preset_name \in DOMAIN REFLECTION_RHYTHMIC_PRESETS
        THEN LET cfg == REFLECTION_RHYTHMIC_PRESETS[call.preset_name]
             IN  /\ result = generate_rhythmic_reflection_sequence(
                                 cfg["state_a"], cfg["state_b"], cfg["pattern"],
                                 PyInt(cfg["num_cycles"]), cfg["steps_per_cycle"],
                                 FZero)
                 /\ result.kind = "return"
                 /\ "sequence" \in DOMAIN result.payload
                 /\ Len(result.payload["sequence"]) =
                       cfg["num_cycles"] * cfg["steps_per_cycle"]
        ELSE /\ IsErrorPayload(result)
             /\ "available" \in DOMAIN result.payload
             /\ Elems(result.payload["available"]) =
                   DOMAIN REFLECTION_RHYTHMIC_PRESETS
             /\ "sequence" \notin DOMAIN result.payload

\* the triangular preset applied: four cycles of fifteen steps between its
\* two states
C17_Witness ==
    /\ call.op = "apply_reflection_rhythmic_preset"
    /\ call.preset_name = "distortion_wave"
    /\ result.kind = "return"
    /\ result.payload["state_a"] = "rippled_pool"
    /\ result.payload["oscillation_pattern"] = "triangular"
    /\ Len(result.payload["sequence"]) = 60

\* an entry of a sequence without its position: the interpolated state and
\* the blend factor
Sample(entry) ==
    [p \in Elems(REFLECTION_PARAMETER_NAMES) \cup {"_alpha"} |-> entry[p]]

\* how often a sample occurs in a sequence
Occurrences(sequence, x) ==
    Cardinality({k \in DOMAIN sequence : Sample(sequence[k]) = x})

\* C20: for every phase offset > 0 the blend-factor sequence used by
\* generate_rhythmic_reflection_sequence is the zero-offset sequence
\* rotated left by floor(offset x stepsPerCycle) positions (those first
\* samples, all of them when there are no more, moved to the end in their
\* order): same length, same multiset of values; for an offset <= 0 it is
\* the zero-offset sequence unchanged.
C20_PhaseOffsetRotates ==
    (call.op = "generate_rhythmic_reflection_sequence"
        /\ ValidStates /\ call.num_cycles.py = "int") =>
        LET zero  == generate_rhythmic_reflection_sequence(
                         call.state_a_id, call.state_b_id,
                         call.oscillation_pattern, call.num_cycles,
                         call.steps_per_cycle, FZero).payload["sequence"]
            seq   == result.payload["sequence"]
            len   == Len(zero)
            floor == IF FLt(FZero, call.phase_offset)
                     THEN FTrunc(FMul(call.phase_offset, FInt(call.steps_per_cycle)))
                     ELSE 0
            moved == IF floor > len THEN len ELSE floor
        IN  /\ Len(seq) = len
            /\ \A k \in 1..len :
                  /\ Sample(seq[k]) =
                        Sample(zero[IF k + moved <= len THEN k + moved
                                    ELSE k + moved - len])
                  /\ Occurrences(seq, Sample(zero[k])) =
                        Occurrences(zero, Sample(zero[k]))
            /\ ~FLt(FZero, call.phase_offset) => seq = zero

\* two cycles of three steps shifted by half a cycle: the first sample,
\* blend factor 0, is now the last
C20_Witness ==
    /\ call.op = "generate_rhythmic_reflection_sequence"
    /\ ValidStates
    /\ call.state_a_id # call.state_b_id
    /\ call.oscillation_pattern = "triangular"
    /\ call.num_cycles = PyInt(2)
    /\ call.steps_per_cycle = 3
    /\ call.phase_offset = FHalf
    /\ result.payload["sequence"][6]["_alpha"] = FZero
    /\ result.payload["sequence"][5]["_alpha"] # FZero

(***************************************************************************)
(* Properties of the attractor prompt.                                     *)
(***************************************************************************)
\* the preset name of an attractor call is a key of the preset table
KnownPreset ==
    /\ call.preset_name.py = "str"
    /\ call.preset_name.v \in DOMAIN REFLECTION_RHYTHMIC_PRESETS

\* C18: in composite mode generate_reflection_attractor_prompt resolves
\* one vector: the supplied attractor_state if given; otherwise the
\* interpolation at 0.5 of the named preset's two states; otherwise the
\* canonical state mirror_still.  It maps that vector to its nearest type,
\* and the prompt is the comma-joined list of the style modifier (when not
\* empty), all keywords of that type in order, and its first two colour
\* associations.
C18_CompositePrompt ==
    (call.op = "generate_reflection_attractor_prompt"
        /\ call.mode = "composite"
        /\ (call.attractor_state = PyNone \/ Decodable(call.attractor_state))) =>
        LET cfg     == REFLECTION_RHYTHMIC_PRESETS[call.preset_name.v]
            vector  == IF call.attractor_state # PyNone
                       THEN StateDict(call.attractor_state.value)
                       ELSE IF KnownPreset
                       THEN _interpolate_reflection_states(
                                REFLECTION_CANONICAL_STATES[cfg["state_a"]],
                                REFLECTION_CANONICAL_STATES[cfg["state_b"]], FHalf)
                       ELSE REFLECTION_CANONICAL_STATES["mirror_still"]
            nearest == _find_nearest_reflection_visual_type(vector)[1]
            type    == REFLECTION_VISUAL_TYPES[nearest]
            parts   == (IF call.style_modifier # ""
                        THEN <<call.style_modifier>> ELSE <<>>)
                       \o type["keywords"]
                       \o <<type["color_associations"][1],
                            type["color_associations"][2]>>
        IN  /\ result.kind = "return"
            /\ result.payload["mode"] = "composite"
            /\ result.payload["vocabulary"]["nearest_type"] = nearest
            /\ result.payload["source"]["state"] = RoundedState(vector)
            /\ result.payload["prompt"] = Join(parts, ", ")

\* no state and a preset: the midpoint of the preset's states, which is
\* neither of the two, with a style modifier in front
C18_Witness ==
    /\ call.op = "generate_reflection_attractor_prompt"
    /\ call.mode = "composite"
    /\ call.attractor_state = PyNone
    /\ call.preset_name = PyStr("distortion_wave")
    /\ call.style_modifier = "cinematic"
    /\ result.kind = "return"
    /\ result.payload["source"]["state"] \notin
          {RoundedState(REFLECTION_CANONICAL_STATES[c]) :
              c \in {"rippled_pool", "marble_hall", "mirror_still"}}

\* C19: in sequence mode with a valid preset and keyframe_count k >= 2
\* generate_reflection_attractor_prompt emits exactly k keyframes whose
\* step indices are non-decreasing, within 0 .. total_steps - 1, and equal
\* to floor(i (total_steps - 1) / (k - 1)) for i = 0 .. k - 1: the first
\* keyframe is step 0 and the last is step total_steps - 1.
C19_KeyframeSteps ==
    (call.op = "generate_reflection_attractor_prompt"
        /\ call.mode = "sequence" /\ KnownPreset /\ call.keyframe_count >= 2) =>
        LET k      == call.keyframe_count
            cfg    == REFLECTION_RHYTHMIC_PRESETS[call.preset_name.v]
            total  == cfg["num_cycles"] * cfg["steps_per_cycle"]
            frames == result.payload["keyframes"]
        IN  /\ result.kind = "return"
            /\ result.payload["total_steps"] = total
            /\ Len(frames) = k
            /\ \A i \in 1..k :
                  /\ frames[i]["step"] = ((i - 1) * (total - 1)) \div (k - 1)
                  /\ frames[i]["step"] \in 0..(total - 1)
            /\ \A i \in 1..(k - 1) : frames[i]["step"] <= frames[i + 1]["step"]
            /\ frames[1]["step"] = 0
            /\ frames[k]["step"] = total - 1

\* three keyframes of the 48 steps of clarity_sweep: steps 0, 23 and 47
C19_Witness ==
    /\ call.op = "generate_reflection_attractor_prompt"
    /\ call.mode = "sequence"
    /\ call.preset_name = PyStr("clarity_sweep")
    /\ call.keyframe_count = 3
    /\ result.kind = "return"
    /\ [i \in 1..3 |-> result.payload["keyframes"][i]["step"]] = <<0, 23, 47>>

(***************************************************************************)
(* Properties of the waveforms as the sequence tool uses them.             *)
(***************************************************************************)
\* a sequence call that returns a sequence: known states, a cycle count
\* passed as an int
ReturnsSequence ==
    /\ call.op = "generate_rhythmic_reflection_sequence"
    /\ ValidStates
    /\ call.num_cycles.py = "int"

\* C21: for every waveform kind and every pair of canonical states A and B
\* the first entry of the sequence returned by
\* generate_rhythmic_reflection_sequence is state A (blend factor 0) when
\* phase_offset is 0.0, and state B (blend factor 1) when phase_offset is
\* 0.5.
C21_OffsetNamesStartingState ==
    (ReturnsSequence /\ call.phase_offset \in {FZero, FHalf}) =>
        LET first == result.payload["sequence"][1]
            start == IF call.phase_offset = FZero
                     THEN call.state_a_id ELSE call.state_b_id
        IN  /\ first["_alpha"] = IF call.phase_offset = FZero THEN FZero ELSE FOne
            /\ \A p \in Elems(REFLECTION_PARAMETER_NAMES) :
                  first[p] = _get_reflection_state_coords(start)[p]

\* the waveform kinds the generator names
KnownPatterns == {"sinusoidal", "triangular", "square"}

\* C22: for every waveform kind other than sinusoidal, triangular and
\* square the oscillation generator returns exactly the sequence it
\* returns for sinusoidal with the same step and cycle counts, and
\* generate_rhythmic_reflection_sequence returns a success payload, without
\* an error field, for such a kind: the sequence of the sinusoidal call.
C22_UnknownWaveformIsSinusoidal ==
    (ReturnsSequence /\ call.oscillation_pattern \notin KnownPatterns) =>
        LET total_steps == call.num_cycles.v * call.steps_per_cycle
            asSine == generate_rhythmic_reflection_sequence(
                          call.state_a_id, call.state_b_id, "sinusoidal",
                          call.num_cycles, call.steps_per_cycle,
                          call.phase_offset)
        IN  /\ _generate_reflection_oscillation(
                   total_steps, ToFloat(call.num_cycles), call.oscillation_pattern)
               = _generate_reflection_oscillation(
                   total_steps, ToFloat(call.num_cycles), "sinusoidal")
            /\ result.kind = "return"
            /\ "error" \notin DOMAIN result.payload
            /\ result.payload["oscillation_pattern"] = call.oscillation_pattern
            /\ result.payload["sequence"] = asSine.payload["sequence"]

\* one cycle of three steps of an unnamed kind: the sine's 0.5, 0.933, 0.067
C22_Witness ==
    /\ ReturnsSequence
    /\ call.oscillation_pattern \notin KnownPatterns
    /\ call.num_cycles = PyInt(1)
    /\ call.steps_per_cycle = 3
    /\ call.phase_offset = FZero
    /\ result.kind = "return"
    /\ result.payload["sequence"][1]["_alpha"] = FHalf
    /\ result.payload["sequence"][2]["_alpha"] = FDec(933, 1000)
    /\ result.payload["sequence"][3]["_alpha"] = FDec(67, 1000)

(***************************************************************************)
(* Properties of the piecewise waveforms.                                  *)
(***************************************************************************)
\* twice the cycle count of an oscillation call, a whole number for the
\* cycle counts tried (halves)
TwiceCycles == FTrunc(FMul(call.num_cycles, FTwo))

\* frac(cycles * i / totalSteps) as the fraction PhaseNum(i) / PhaseDen of
\* whole numbers
PhaseNum(i) == (TwiceCycles * i) % (2 * call.num_steps)
PhaseDen == 2 * call.num_steps

\* the float nearest to the triangular factor of step i: 2t when t < 0.5,
\* 2(1 - t) otherwise
TriangularAt(i) ==
    IF 2 * PhaseNum(i) < PhaseDen
    THEN FDiv(FInt(2 * PhaseNum(i)), FInt(PhaseDen))
    ELSE FDiv(FInt(2 * (PhaseDen - PhaseNum(i))), FInt(PhaseDen))

\* the square factor of step i: 0 when t < 0.5, 1 otherwise
SquareAt(i) == IF 2 * PhaseNum(i) < PhaseDen THEN FZero ELSE FOne

\* an oscillation call of a whole positive number of cycles over a whole
\* number of steps per cycle
WholeCycles ==
    /\ TwiceCycles > 0
    /\ TwiceCycles % 2 = 0
    /\ call.num_steps % (TwiceCycles \div 2) = 0

\* C29: with t = frac(cycles * i / totalSteps) the triangular waveform
\* yields 2t when t < 0.5 and 2(1 - t) otherwise, and the square waveform 0
\* when t < 0.5 and 1 otherwise; for a whole cycle count with
\* totalSteps = cycles x stepsPerCycle both sequences are periodic with
\* period stepsPerCycle, every cycle starts at factor 0, the triangular
\* ramp is symmetric within a cycle and the square wave is 0 on the first
\* half of each cycle and 1 from the half-cycle point on.
C29_PiecewiseWaveforms ==
    (call.op = "_generate_reflection_oscillation"
        /\ call.pattern \in {"triangular", "square"}) =>
        /\ \A k \in DOMAIN result :
              result[k] = IF call.pattern = "triangular"
                          THEN TriangularAt(k - 1) ELSE SquareAt(k - 1)
        /\ WholeCycles =>
              LET steps_per_cycle == call.num_steps \div (TwiceCycles \div 2)
              IN  \A k \in DOMAIN result :
                     LET j == (k - 1) % steps_per_cycle
                     IN  /\ result[k] = result[j + 1]
                         /\ j = 0 => result[k] = FZero
                         /\ (call.pattern = "triangular" /\ j > 0) =>
                               result[k] = result[steps_per_cycle - j + 1]
                         /\ call.pattern = "square" =>
                               result[k] = IF 2 * j < steps_per_cycle
                                           THEN FZero ELSE FOne

\* the square wave of three cycles of two steps reads 0 at its last step,
\* the half-cycle point of the third cycle, where the wave is 1
C29_SquareWaveFlipped ==
    /\ call.op = "_generate_reflection_oscillation"
    /\ call.pattern = "square"
    /\ call.num_steps = 6
    /\ call.num_cycles = FInt(3)
    /\ result = <<FZero, FOne, FZero, FOne, FZero, FZero>>

(***************************************************************************)
(* Properties of the parameter vectors.                                    *)
(***************************************************************************)
\* every one of the five dimensions of a vector lies in [0, 1]
UnitVector(v) ==
    \A p \in Elems(REFLECTION_PARAMETER_NAMES) : FBetween(v[p], FZero, FOne)

\* an attractor call that derives its vectors from a preset of the table
FromPreset ==
    /\ call.op = "generate_reflection_attractor_prompt"
    /\ call.attractor_state = PyNone
    /\ KnownPreset
    /\ result.kind = "return"

\* C26: every one of the five dimensions of every canonical state and of
\* every visual type lies in [0, 1], and so does every dimension of every
\* vector of a sequence returned by generate_rhythmic_reflection_sequence
\* or apply_reflection_rhythmic_preset and of every keyframe state or
\* composite state derived from a preset, for all waveforms, cycle counts,
\* step counts and phase offsets.
C26_DimensionsInUnitInterval ==
    /\ \A s \in DOMAIN REFLECTION_CANONICAL_STATES :
          UnitVector(REFLECTION_CANONICAL_STATES[s])
    /\ \A t \in DOMAIN REFLECTION_VISUAL_TYPES :
          UnitVector(REFLECTION_VISUAL_TYPES[t]["coords"])
    /\ (call.op \in {"generate_rhythmic_reflection_sequence",
                     "apply_reflection_rhythmic_preset"}
           /\ result.kind = "return"
           /\ "sequence" \in DOMAIN result.payload) =>
          \A k \in DOMAIN result.payload["sequence"] :
              UnitVector(result.payload["sequence"][k])
    /\ (FromPreset /\ call.mode = "composite") =>
          UnitVector(result.payload["source"]["state"])
    /\ (FromPreset /\ call.mode = "sequence") =>
          \A k \in DOMAIN result.payload["keyframes"] :
              UnitVector(result.payload["keyframes"][k]["state"])

\* keyframes of a preset that lie strictly between its two states on the
\* first dimension
C26_Witness ==
    /\ FromPreset
    /\ call.mode = "sequence"
    /\ call.preset_name = PyStr("urban_drama")
    /\ Len(result.payload["keyframes"]) = MaxKeyframes
    /\ \E k \in DOMAIN result.payload["keyframes"] :
          LET x == result.payload["keyframes"][k]["state"]["reflection_clarity"]
              a == REFLECTION_CANONICAL_STATES["wet_street"]["reflection_clarity"]
              b == REFLECTION_CANONICAL_STATES["chrome_curve"]["reflection_clarity"]
          IN  (FLt(a, x) /\ FLt(x, b)) \/ (FLt(b, x) /\ FLt(x, a))

(***************************************************************************)
(* Properties of the references between the tables.                        *)
(***************************************************************************)
\* the result is a payload without an error field
Succeeds == result.kind = "return" /\ "error" \notin DOMAIN result.payload

\* C27: the tables are referentially closed: every preset's state_a and
\* state_b are keys of the canonical-state table, every canonical state's
\* _material_ref is a key of the material table and its _geometry_ref a
\* key of the geometry table, and every material's reflection_type is a
\* key of the reflection-type table; hence no tool call made with a name
\* listed in a table fails on a missing reference:
\* apply_reflection_rhythmic_preset and the composite and sequence prompts
\* succeed for all five presets, map_material_properties and
\* analyze_reflection_context for all ten materials.
C27_TablesClosed ==
    /\ \A p \in DOMAIN REFLECTION_RHYTHMIC_PRESETS :
          {REFLECTION_RHYTHMIC_PRESETS[p]["state_a"],
           REFLECTION_RHYTHMIC_PRESETS[p]["state_b"]}
              \subseteq DOMAIN REFLECTION_CANONICAL_STATES
    /\ \A s \in DOMAIN REFLECTION_CANONICAL_STATES :
          /\ REFLECTION_CANONICAL_STATES[s]["_material_ref"]
                \in DOMAIN SURFACE_MATERIALS
          /\ REFLECTION_CANONICAL_STATES[s]["_geometry_ref"]
                \in DOMAIN GEOMETRY_FACTORS
    /\ \A m \in DOMAIN SURFACE_MATERIALS :
          SURFACE_MATERIALS[m]["reflection_type"] \in DOMAIN REFLECTION_TYPES
    /\ Cardinality(DOMAIN REFLECTION_RHYTHMIC_PRESETS) = 5
    /\ Cardinality(DOMAIN SURFACE_MATERIALS) = 10
    /\ (call.op = "map_material_properties"
           /\ call.material_id \in DOMAIN SURFACE_MATERIALS) =>
          /\ Succeeds
          /\ result.payload["reflection_behavior"] =
                REFLECTION_TYPES[SURFACE_MATERIALS[call.material_id]["reflection_type"]]
    /\ (call.op = "analyze_reflection_context" /\ ValidContext) => Succeeds
    /\ (call.op = "apply_reflection_rhythmic_preset"
           /\ call.preset_name \in DOMAIN REFLECTION_RHYTHMIC_PRESETS) =>
          /\ Succeeds
          /\ result.payload["state_a"] =
                REFLECTION_RHYTHMIC_PRESETS[call.preset_name]["state_a"]
          /\ "sequence" \in DOMAIN result.payload
    /\ (call.op = "generate_reflection_attractor_prompt"
           /\ call.attractor_state = PyNone /\ KnownPreset
           /\ \/ call.mode = "composite"
              \/ call.mode = "sequence" /\ call.keyframe_count > 1) =>
          Succeeds

\* the last preset of the table applied: it refers to the last canonical
\* state
C27_Witness ==
    /\ call.op = "apply_reflection_rhythmic_preset"
    /\ call.preset_name = "warmth_cycle"
    /\ Succeeds
    /\ result.payload["state_a"] = "gold_dome"
    /\ Len(result.payload["sequence"]) = 52

\* the five dimensions of an entry of a sequence
Vector(entry) == [p \in Elems(REFLECTION_PARAMETER_NAMES) |-> entry[p]]

\* C28: for every preset p and every keyframe_count >= 2 each keyframe
\* emitted by generate_reflection_attractor_prompt in sequence mode with
\* step index s carries the blend factor and the five-dimensional vector,
\* rounded to 4 decimals, of entry s of the sequence returned by
\* apply_reflection_rhythmic_preset(p), and its nearest_type is the nearest
\* visual type of that vector.
C28_KeyframesSampleTheSequence ==
    (FromPreset /\ call.mode = "sequence" /\ call.keyframe_count >= 2) =>
        Let([sequence \in {apply_reflection_rhythmic_preset(
                               call.preset_name.v).payload["sequence"]} |->
            \A k \in DOMAIN result.payload["keyframes"] :
                LET keyframe == result.payload["keyframes"][k]
                    entry == sequence[keyframe["step"] + 1]
                IN  /\ keyframe["step"] = entry["_step"]
                    /\ keyframe["alpha"] = entry["_alpha"]
                    /\ keyframe["state"] = RoundedState(Vector(entry))
                    /\ keyframe["nearest_type"] =
                          _find_nearest_reflection_visual_type(Vector(entry))[1]])

\* three keyframes of the triangular preset: its first step, a step inside
\* and its last step, of different blend factors
C28_Witness ==
    /\ FromPreset
    /\ call.mode = "sequence"
    /\ call.preset_name = PyStr("distortion_wave")
    /\ call.keyframe_count = 3
    /\ Len(result.payload["keyframes"]) = 3
    /\ result.payload["keyframes"][1]["alpha"] = FZero
    /\ result.payload["keyframes"][2]["step"] = 29
    /\ result.payload["keyframes"][2]["alpha"] # FZero
    /\ result.payload["keyframes"][3]["step"] = 59


\* the payload analyze_reflection_context returns for the scenario of the
\* prompt enhancement in progress
EnhancedAnalysis ==
    analyze_reflection_context(call.material_id, call.geometry, call.environment,
                               call.viewing_angle).payload

\* C30: generate_reflection_prompt_enhancement returns the error payload of
\* analyze_reflection_context unchanged for an unknown material, geometry or
\* environment; otherwise the effective_visibility it reports is the one of
\* the analysis multiplied by reflection_prominence (to three decimals), and
\* the prominence label it reports is the one of the analysis, the same for
\* every value of reflection_prominence, 0 included
C30_EnhancementScalesVisibilityOnly ==
    call.op = "generate_reflection_prompt_enhancement" =>
        IF "error" \in DOMAIN EnhancedAnalysis
        THEN result = Return(EnhancedAnalysis)
        ELSE /\ result.kind = "return"
             /\ result.payload["reflection_enhancement"]["effective_visibility"]
                    = FRoundDec(FMul(EnhancedAnalysis["reflection_parameters"]["effective_visibility"],
                                     call.reflection_prominence), 1000)
             /\ result.payload["reflection_enhancement"]["prominence"]
                    = EnhancedAnalysis["composition_guidance"]["prominence"]
             /\ \A p \in Prominences :
                    generate_reflection_prompt_enhancement(
                        call.base_prompt, call.material_id, call.geometry,
                        call.environment, call.viewing_angle, p,
                        call.style_modifier)
                      .payload["reflection_enhancement"]["prominence"]
                    = result.payload["reflection_enhancement"]["prominence"]

\* a mirror seen head-on at golden hour with reflection_prominence 0: no
\* visibility is reported, under a label that is not "minimal"
C30_Witness ==
    /\ call.op = "generate_reflection_prompt_enhancement"
    /\ call.material_id = "mirror_glass"
    /\ call.reflection_prominence = FZero
    /\ result.kind = "return"
    /\ "error" \notin DOMAIN result.payload
    /\ result.payload["reflection_enhancement"]["effective_visibility"] = FZero
    /\ result.payload["reflection_enhancement"]["prominence"] # "minimal"


\* the table each category of detect_reflection_keywords is detected from
CategoryTables ==
    "materials" :> SURFACE_MATERIALS
    @@ "reflection_types" :> REFLECTION_TYPES
    @@ "geometries" :> GEOMETRY_FACTORS
    @@ "phenomena" :> OPTICAL_PHENOMENA
    @@ "environments" :> ENVIRONMENTAL_CONTEXTS

\* the prompt, compared without regard to case, contains the identifier or
\* a phrase of the keyword list of an entry
Mentions(prompt, id, entry) ==
    \/ Contains(Lower(prompt), Lower(id))
    \/ \E k \in DOMAIN entry["keywords"] :
          Contains(Lower(prompt), Lower(entry["keywords"][k]))

\* C25: detect_reflection_keywords lists the identifier of an entry in its
\* category whenever the prompt, compared without regard to case, contains
\* the identifier or a phrase of the entry's keyword list, in each of the
\* five tables
C25_MentionedEntriesDetected ==
    call.op = "detect_reflection_keywords" =>
        \A category \in DOMAIN CategoryTables :
            \A id \in DOMAIN CategoryTables[category] :
                Mentions(call.prompt, id, CategoryTables[category][id])
                    => id \in Elems(result.payload["detected"][category])

\* a prompt with a keyword of the convex geometry and no geometry detected
C25_GeometryKeywordMissed ==
    /\ call.op = "detect_reflection_keywords"
    /\ call.prompt = "fisheye effect"
    /\ result.payload["detected"]["geometries"] = <<>>

\* the results the tool called can return for the arguments of the call in
\* progress
Outcomes ==
    CASE call.op = "map_material_properties" ->
            {map_material_properties(call.material_id)}
      [] call.op = "compute_fresnel_intensity" ->
            {compute_fresnel_intensity(call.viewing_angle_degrees, call.material_id)}
      [] call.op = "analyze_reflection_context" ->
            {analyze_reflection_context(call.material_id, call.geometry,
                                        call.environment, call.viewing_angle_degrees)}
      [] call.op = "compare_reflection_scenarios" ->
            {compare_reflection_scenarios(call.scenarios)}
      [] call.op = "detect_reflection_keywords" ->
            detect_reflection_keywords(call.prompt)
      [] call.op = "generate_reflection_prompt_enhancement" ->
            {generate_reflection_prompt_enhancement(
                 call.base_prompt, call.material_id, call.geometry,
                 call.environment, call.viewing_angle,
                 call.reflection_prominence, call.style_modifier)}
      [] call.op = "generate_rhythmic_reflection_sequence" ->
            {generate_rhythmic_reflection_sequence(
                 call.state_a_id, call.state_b_id, call.oscillation_pattern,
                 call.num_cycles, call.steps_per_cycle, call.phase_offset)}
      [] call.op = "apply_reflection_rhythmic_preset" ->
            {apply_reflection_rhythmic_preset(call.preset_name)}
      [] call.op = "extract_reflection_visual_vocabulary" ->
            {extract_reflection_visual_vocabulary(call.state)}
      [] call.op = "generate_reflection_attractor_prompt" ->
            {generate_reflection_attractor_prompt(
                 call.attractor_state, call.preset_name, call.mode,
                 call.style_modifier, call.keyframe_count)}

\* C23: every tool is deterministic: the result of a call is the only one
\* its arguments can produce, whatever was called before and in whichever
\* run of the process, the order of the identifiers in the lists of
\* detect_reflection_keywords included
C23_OneOutcomePerCall ==
    call.op # "idle" => Outcomes = {result}

\* a prompt naming two materials, answered with the two in either order
C23_EitherOrder ==
    /\ call.op = "detect_reflection_keywords"
    /\ call.prompt = "polished chrome, Mirror Glass"
    /\ result.payload["detected"]["materials"] = <<"mirror_glass", "polished_chrome">>
    /\ Return([result.payload EXCEPT !["detected"]["materials"] =
                                         <<"polished_chrome", "mirror_glass">>])
           \in Outcomes


\* C24: after any sequence of tool calls every constant table equals its
\* value at start-up: the tags _step, _alpha and _phase and the keyword
\* lists put together for a prompt are written to objects created in the
\* call, never to an entry of a table
C24_TablesUnchanged ==
    tables = ConstantTables

\* a composite prompt with a style was put together from the keyword list
\* of a visual type, and the list in the table is the one reported
C24_Witness ==
    /\ call.op = "generate_reflection_attractor_prompt"
    /\ call.mode = "composite"
    /\ call.style_modifier = "cinematic"
    /\ result.kind = "return"
    /\ "vocabulary" \in DOMAIN result.payload
    /\ result.payload["vocabulary"]["keywords"]
           = tables.REFLECTION_VISUAL_TYPES[result.payload["vocabulary"]["nearest_type"]]["keywords"]
    /\ "_step" \notin DOMAIN tables.REFLECTION_CANONICAL_STATES["mirror_still"]

=============================================================================
